---- MODULE Spec2Model ----
(***************************************************************************)
(* Datasheet parsing engine of the cable scraper (src/scraper/scraper.py,  *)
(* duplicated in src/scraper/combined_scraper.py).                         *)
(*                                                                         *)
(* A Python str is a sequence of one-character strings.  Two characters    *)
(* have no ASCII form and are written by name: "deg" is the degree sign    *)
(* and "pm" is the plus-minus sign.  "9{4301}" stands for a run of 4301    *)
(* digits 9, one more than int() converts: no pattern of the parser can    *)
(* match a part of a digit run without matching from its first digit, so   *)
(* the run is matched as one digit.                                        *)
(***************************************************************************)
EXTENDS Integers, Sequences, FiniteSets, TLC

\* parse_datasheets: its argument, its locals, what it printed; the hash seed
\* of the process
VARIABLES files, hashseed, pc, i, all_cables, printed

\* validate_json_output: its argument and what the call came to
VARIABLES cable_data, validation

\* the processing pipeline: the configuration, the two directories, the call
\* in progress and the requests sent to the API
VARIABLES API_URL, data_dir, output_dir, call, step, cable_log, valid_count, posted, api_results, result, response

\* parse_datasheets running for several callers at once
VARIABLES frames

\* one PDFProcessor shared by polling threads
VARIABLES processed_files, lock, polls, processing_log

\* one call of APIPoster.post_multiple_cables
VARIABLES poster

\* the /api/upload requests in progress and the folders of app.py
VARIABLES requests, UPLOAD_FOLDER, PROCESSED_FOLDER

upload_vars == <<requests, UPLOAD_FOLDER, PROCESSED_FOLDER>>

validator_vars == <<cable_data, validation>>

pipeline_vars == <<API_URL, data_dir, output_dir, call, step, cable_log, valid_count, posted, api_results, result, response>>

watcher_vars == <<processed_files, lock, polls, processing_log>>

vars == <<files, hashseed, pc, i, all_cables, printed, validator_vars, pipeline_vars, frames, watcher_vars,
          poster, upload_vars>>

(***************************************************************************)
(* Characters and the str methods the parser uses                          *)
(***************************************************************************)

\* int() of a str of more digits raises ValueError (CPython 3.11 and later:
\* sys.int_info.default_max_str_digits)
int_max_str_digits == 4300

DigitRun == "9{4301}"

Digits == {"0", "1", "2", "3", "4", "5", "6", "7", "8", "9", DigitRun}

\* the characters \s matches, as far as the inputs of this model hold them
Whitespace == {" ", "\n", "\t"}

UpperLetters == <<"A", "B", "C", "D", "E", "F", "G", "H", "I", "J", "K", "L", "M", "N", "O", "P", "Q", "R", "S", "T", "U", "V", "W", "X", "Y", "Z">>

LowerLetters == <<"a", "b", "c", "d", "e", "f", "g", "h", "i", "j", "k", "l", "m", "n", "o", "p", "q", "r", "s", "t", "u", "v", "w", "x", "y", "z">>

LowerOf == [c \in {UpperLetters[k] : k \in 1..26} |-> LowerLetters[CHOOSE k \in 1..26 : UpperLetters[k] = c]]

UpperOf == [c \in {LowerLetters[k] : k \in 1..26} |-> UpperLetters[CHOOSE k \in 1..26 : LowerLetters[k] = c]]

LowerChar(c) == IF c \in DOMAIN LowerOf THEN LowerOf[c] ELSE c

UpperChar(c) == IF c \in DOMAIN UpperOf THEN UpperOf[c] ELSE c

\* str.lower()
Lower(s) == [k \in 1..Len(s) |-> LowerChar(s[k])]

\* sub in s
Contains(s, sub) ==
    LET n == Len(sub)
    IN  \E k \in 1..(Len(s) - n + 1) : \A j \in 1..n : s[k + j - 1] = sub[j]

RECURSIVE LStrip(_)
LStrip(s) == IF s # <<>> /\ Head(s) \in Whitespace THEN LStrip(Tail(s)) ELSE s

RECURSIVE RStrip(_)
RStrip(s) == IF s # <<>> /\ s[Len(s)] \in Whitespace THEN RStrip(SubSeq(s, 1, Len(s) - 1)) ELSE s

\* str.strip()
Strip(s) == RStrip(LStrip(s))

DigitValue(c) == CHOOSE d \in 0..9 : <<"0", "1", "2", "3", "4", "5", "6", "7", "8", "9">>[d + 1] = c

RECURSIVE DigitLength(_)
\* how many digits a digit string has
DigitLength(s) ==
    IF s = <<>> THEN 0
    ELSE (IF Head(s) = DigitRun THEN int_max_str_digits + 1 ELSE 1) + DigitLength(Tail(s))

\* int(s) raises ValueError unless s is a non-empty string of digits, of no
\* more digits than the limit
IntRaises(s) ==
    \/ s = <<>>
    \/ \E k \in 1..Len(s) : s[k] \notin Digits
    \/ DigitLength(s) > int_max_str_digits

RECURSIVE ToInt(_)
ToInt(s) == IF s = <<>> THEN 0 ELSE 10 * ToInt(SubSeq(s, 1, Len(s) - 1)) + DigitValue(s[Len(s)])

(***************************************************************************)
(* Regular expressions: a pattern is a sequence of items, each a character *)
(* class with a greedy quantifier, and one capture group (items gfirst to  *)
(* glast).  re.IGNORECASE is a pattern built from both cases of a letter.  *)
(***************************************************************************)

One(cls) == [cls |-> cls, min |-> 1, many |-> FALSE]

Opt(cls) == [cls |-> cls, min |-> 0, many |-> FALSE]

Star(cls) == [cls |-> cls, min |-> 0, many |-> TRUE]

Plus(cls) == [cls |-> cls, min |-> 1, many |-> TRUE]

Lit(s) == [k \in 1..Len(s) |-> One({s[k]})]

LitIgnoreCase(s) == [k \in 1..Len(s) |-> One({LowerChar(s[k]), UpperChar(s[k])})]

Group(items, gfirst, glast) == [items |-> items, gfirst |-> gfirst, glast |-> glast]

NoMatch == [ok |-> FALSE, start |-> 0, stop |-> 0, gstart |-> 0, gstop |-> 0]

RECURSIVE RunLength(_, _, _, _)
RunLength(text, p, cls, many) ==
    IF p <= Len(text) /\ text[p] \in cls
    THEN (IF many THEN 1 + RunLength(text, p + 1, cls, many) ELSE 1)
    ELSE 0

RECURSIVE MatchItems(_, _, _, _, _, _, _)
RECURSIVE TryRepeat(_, _, _, _, _, _, _, _)
\* the match of items k.. of pat at position p, as the backtracking matcher
\* finds it: every quantifier takes as much as it can and gives back one
\* character at a time
MatchItems(pat, k, text, start, p, gs, ge) ==
    LET gs2 == IF k = pat.gfirst THEN p ELSE gs
        ge2 == IF k = pat.glast + 1 THEN p ELSE ge
    IN  IF k > Len(pat.items)
        THEN [ok |-> TRUE, start |-> start, stop |-> p, gstart |-> gs2, gstop |-> ge2]
        ELSE LET n == RunLength(text, p, pat.items[k].cls, pat.items[k].many)
             IN  IF n < pat.items[k].min THEN NoMatch
                 ELSE TryRepeat(pat, k, text, start, p, gs2, ge2, n)

TryRepeat(pat, k, text, start, p, gs, ge, n) ==
    LET r == MatchItems(pat, k + 1, text, start, p + n, gs, ge)
    IN  IF r.ok THEN r
        ELSE IF n > pat.items[k].min THEN TryRepeat(pat, k, text, start, p, gs, ge, n - 1)
        ELSE NoMatch

MatchAt(pat, text, p) == MatchItems(pat, 1, text, p, p, 0, 0)

RECURSIVE SearchFrom(_, _, _)
SearchFrom(pat, text, p) ==
    IF p > Len(text) + 1 THEN NoMatch
    ELSE LET m == MatchAt(pat, text, p)
         IN  IF m.ok THEN m ELSE SearchFrom(pat, text, p + 1)

\* re.search(pattern, text): the leftmost match
re_search(pat, text) == SearchFrom(pat, text, 1)

\* match.group(1)
group1(text, m) == SubSeq(text, m.gstart, m.gstop - 1)

RECURSIVE FindAllFrom(_, _, _)
FindAllFrom(pat, text, p) ==
    IF p > Len(text) + 1 THEN <<>>
    ELSE LET m == MatchAt(pat, text, p)
         IN  IF m.ok
             THEN <<group1(text, m)>> \o FindAllFrom(pat, text, IF m.stop > p THEN m.stop ELSE p + 1)
             ELSE FindAllFrom(pat, text, p + 1)

\* re.findall(pattern, text) of a pattern with one group: the group of every
\* match, left to right, matches not overlapping
re_findall(pat, text) == FindAllFrom(pat, text, 1)

RECURSIVE CollapseWhitespace(_)
\* re.sub(r'\s+', ' ', text)
CollapseWhitespace(text) ==
    IF text = <<>> THEN <<>>
    ELSE IF Head(text) \in Whitespace
    THEN <<" ">> \o CollapseWhitespace(SubSeq(text, 1 + RunLength(text, 1, Whitespace, TRUE), Len(text)))
    ELSE <<Head(text)>> \o CollapseWhitespace(Tail(text))

RECURSIVE Join(_, _)
\* sep.join(parts)
Join(sep, parts) ==
    IF parts = <<>> THEN <<>>
    ELSE IF Len(parts) = 1 THEN parts[1]
    ELSE parts[1] \o sep \o Join(sep, Tail(parts))

(***************************************************************************)
(* Attribute extractors                                                    *)
(***************************************************************************)

NA == <<"N", "/", "A">>

IndoorLSZH == <<"I", "n", "d", "o", "o", "r", " ", "L", "S", "Z", "H", " ", "l", "o", "o", "s", "e", "-", "t", "u", "b", "e", " ", "c", "a", "b", "l", "e">>

Outdoor == <<"O", "u", "t", "d", "o", "o", "r", " ", "l", "o", "o", "s", "e", "-", "t", "u", "b", "e", " ", "c", "a", "b", "l", "e">>

Armoured == <<"A", "r", "m", "o", "u", "r", "e", "d", " ", "l", "o", "o", "s", "e", "-", "t", "u", "b", "e", " ", "c", "a", "b", "l", "e">>

MicroCable == <<"M", "i", "c", "r", "o", " ", "l", "o", "o", "s", "e", "-", "t", "u", "b", "e", " ", "c", "a", "b", "l", "e">>

Unarmoured == <<"U", "n", "a", "r", "m", "o", "u", "r", "e", "d", " ", "l", "o", "o", "s", "e", "-", "t", "u", "b", "e", " ", "c", "a", "b", "l", "e">>

OpticalFiberCable == <<"O", "p", "t", "i", "c", "a", "l", " ", "F", "i", "b", "e", "r", " ", "C", "a", "b", "l", "e">>

detailed_patterns == <<IndoorLSZH, Outdoor, Armoured, MicroCable, Unarmoured>>

\* pattern.lower() of each
detailed_patterns_lower == [k \in 1..Len(detailed_patterns) |-> Lower(detailed_patterns[k])]

\* the vendor codes tried before the phrases
get_cable_description_codes_first(text) ==
    IF Contains(text, <<"M", "T", "U", "A">>) THEN IndoorLSZH
    ELSE IF Contains(text, <<"U", "T", "A">>) THEN Armoured
    ELSE IF Contains(text, <<"M", "I", "C", "R", "O">>) THEN MicroCable
    ELSE IF Contains(text, <<"M", "T", " ", "U", "A">>) THEN Unarmoured
    ELSE IF \E k \in 1..Len(detailed_patterns) : Contains(Lower(text), detailed_patterns_lower[k])
    THEN detailed_patterns[CHOOSE k \in 1..Len(detailed_patterns) :
            /\ Contains(Lower(text), detailed_patterns_lower[k])
            /\ \A j \in 1..(k - 1) : ~Contains(Lower(text), detailed_patterns_lower[j])]
    ELSE OpticalFiberCable

\* the longest phrase that matches decides
get_cable_description_longest_phrase(text) ==
    IF \E k \in 1..Len(detailed_patterns) : Contains(Lower(text), detailed_patterns_lower[k])
    THEN detailed_patterns[CHOOSE k \in 1..Len(detailed_patterns) :
            /\ Contains(Lower(text), detailed_patterns_lower[k])
            /\ \A j \in 1..Len(detailed_patterns) :
                Contains(Lower(text), detailed_patterns_lower[j]) =>
                    \/ Len(detailed_patterns[j]) < Len(detailed_patterns[k])
                    \/ (Len(detailed_patterns[j]) = Len(detailed_patterns[k]) /\ k <= j)]
    ELSE IF Contains(text, <<"M", "T", "U", "A">>) THEN IndoorLSZH
    ELSE IF Contains(text, <<"U", "T", "A">>) THEN Armoured
    ELSE IF Contains(text, <<"M", "I", "C", "R", "O">>) THEN MicroCable
    ELSE IF Contains(text, <<"M", "T", " ", "U", "A">>) THEN Unarmoured
    ELSE OpticalFiberCable

get_cable_description(text) ==
    IF \E k \in 1..Len(detailed_patterns) : Contains(Lower(text), detailed_patterns_lower[k])
    THEN detailed_patterns[CHOOSE k \in 1..Len(detailed_patterns) :
            /\ Contains(Lower(text), detailed_patterns_lower[k])
            /\ \A j \in 1..(k - 1) : ~Contains(Lower(text), detailed_patterns_lower[j])]
    ELSE IF Contains(text, <<"M", "T", "U", "A">>) THEN IndoorLSZH
    ELSE IF Contains(text, <<"U", "T", "A">>) THEN Armoured
    ELSE IF Contains(text, <<"M", "I", "C", "R", "O">>) THEN MicroCable
    ELSE IF Contains(text, <<"M", "T", " ", "U", "A">>) THEN Unarmoured
    ELSE OpticalFiberCable

\* the Installation and Short Term patterns tried before the bare one
TensilePatternsLabelledFirst ==
    <<Group(LitIgnoreCase(<<"I", "n", "s", "t", "a", "l", "l", "a", "t", "i", "o", "n">>) \o <<Star(Whitespace), One({":"}), Star(Whitespace),
            Plus(Digits), Star(Whitespace)>> \o LitIgnoreCase(<<"N">>), 16, 18),
      Group(LitIgnoreCase(<<"S", "h", "o", "r", "t", " ", "T", "e", "r", "m">>) \o <<Star(Whitespace), One({":"}), Star(Whitespace),
            Plus(Digits), Star(Whitespace)>> \o LitIgnoreCase(<<"N">>), 14, 16),
      Group(<<Plus(Digits), Star(Whitespace)>> \o LitIgnoreCase(<<"N">>), 1, 3)>>

\* r"(\d+\s*N)", r"Installation\s*:\s*(\d+\s*N)", r"Short Term\s*:\s*(\d+\s*N)"
TensilePatterns ==
    <<Group(<<Plus(Digits), Star(Whitespace)>> \o LitIgnoreCase(<<"N">>), 1, 3),
      Group(LitIgnoreCase(<<"I", "n", "s", "t", "a", "l", "l", "a", "t", "i", "o", "n">>) \o <<Star(Whitespace), One({":"}), Star(Whitespace),
            Plus(Digits), Star(Whitespace)>> \o LitIgnoreCase(<<"N">>), 16, 18),
      Group(LitIgnoreCase(<<"S", "h", "o", "r", "t", " ", "T", "e", "r", "m">>) \o <<Star(Whitespace), One({":"}), Star(Whitespace),
            Plus(Digits), Star(Whitespace)>> \o LitIgnoreCase(<<"N">>), 14, 16)>>

\* r"(\d+\s*N/\d+\s*x?\s*\d*\s*cm)", r"(\d+\s*N/\d+\s*x?\s*\d*\s*mm)"
CrushPrefix ==
    <<Plus(Digits), Star(Whitespace)>> \o LitIgnoreCase(<<"N">>) \o
    <<One({"/"}), Plus(Digits), Star(Whitespace), Opt({"x", "X"}), Star(Whitespace),
      Star(Digits), Star(Whitespace)>>

CrushPatterns ==
    <<Group(CrushPrefix \o LitIgnoreCase(<<"c", "m">>), 1, 12),
      Group(CrushPrefix \o LitIgnoreCase(<<"m", "m">>), 1, 12)>>

\* r"(\d+\.\d+\s*±\s*\d+\.\d+\s*mm)"
DiameterPatterns ==
    <<Group(<<Plus(Digits), One({"."}), Plus(Digits), Star(Whitespace), One({"pm"}),
              Star(Whitespace), Plus(Digits), One({"."}), Plus(Digits), Star(Whitespace)>>
            \o LitIgnoreCase(<<"m", "m">>), 1, 12)>>

RECURSIVE FirstMatch(_, _, _)
\* for pattern in patterns: match = re.search(...); if match: return match.group(1).strip()
FirstMatch(patterns, k, text) ==
    IF k > Len(patterns) THEN NA
    ELSE LET m == re_search(patterns[k], text)
         IN  IF m.ok THEN Strip(group1(text, m)) ELSE FirstMatch(patterns, k + 1, text)

extract_parameter_value(text, parameter_name) ==
    LET clean == CollapseWhitespace(text)
    IN  IF Lower(parameter_name) = <<"t", "e", "n", "s", "i", "l", "e", " ", "s", "t", "r", "e", "n", "g", "t", "h">> THEN FirstMatch(TensilePatterns, 1, clean)
        ELSE IF Lower(parameter_name) = <<"c", "r", "u", "s", "h", " ", "r", "e", "s", "i", "s", "t", "a", "n", "c", "e">> THEN FirstMatch(CrushPatterns, 1, clean)
        ELSE IF Lower(parameter_name) = <<"c", "a", "b", "l", "e", " ", "d", "i", "a", "m", "e", "t", "e", "r">> THEN FirstMatch(DiameterPatterns, 1, clean)
        ELSE NA

\* "Micro" tested before the Unitube and Multitube tokens
get_tube_type_micro_first(text) ==
    IF Contains(text, <<"M", "i", "c", "r", "o">>) THEN <<"M", "i", "c", "r", "o">>
    ELSE IF Contains(text, <<"U", "n", "i", "t", "u", "b", "e">>) \/ Contains(text, <<"U", "T", "A">>) THEN <<"U", "n", "i", "t", "u", "b", "e">>
    ELSE IF Contains(text, <<"M", "u", "l", "t", "i", "t", "u", "b", "e">>) \/ Contains(text, <<"M", "T", "U", "A">>) \/ Contains(text, <<"M", "T", " ", "U", "A">>) THEN <<"M", "u", "l", "t", "i", "t", "u", "b", "e">>
    ELSE <<"S", "t", "a", "n", "d", "a", "r", "d">>

get_tube_type(text) ==
    IF Contains(text, <<"U", "n", "i", "t", "u", "b", "e">>) \/ Contains(text, <<"U", "T", "A">>) THEN <<"U", "n", "i", "t", "u", "b", "e">>
    ELSE IF Contains(text, <<"M", "u", "l", "t", "i", "t", "u", "b", "e">>) \/ Contains(text, <<"M", "T", "U", "A">>) \/ Contains(text, <<"M", "T", " ", "U", "A">>) THEN <<"M", "u", "l", "t", "i", "t", "u", "b", "e">>
    ELSE IF Contains(text, <<"M", "i", "c", "r", "o">>) THEN <<"M", "i", "c", "r", "o">>
    ELSE <<"S", "t", "a", "n", "d", "a", "r", "d">>

\* the text rules tried before the 144/288 special case
get_detailed_fiber_type_text_first(text, fiber_count) ==
    IF Contains(text, <<"G", ".", "6", "5">>) THEN <<"G", ".", "6", "5", "2", "D">>
    ELSE IF Contains(text, <<"O", "M">>) THEN <<"O", "M", "1">>
    ELSE IF fiber_count \in {<<"1", "4", "4">>, <<"2", "8", "8">>} THEN <<"G", ".", "6", "5", "7", "A", "1">>
    ELSE <<"G", ".", "6", "5", "2", "D">>

get_detailed_fiber_type(text, fiber_count) ==
    IF fiber_count \in {<<"1", "4", "4">>, <<"2", "8", "8">>} THEN <<"G", ".", "6", "5", "7", "A", "1">>
    ELSE IF Contains(text, <<"G", ".", "6", "5">>) THEN <<"G", ".", "6", "5", "2", "D">>
    ELSE IF Contains(text, <<"O", "M">>) THEN <<"O", "M", "1">>
    ELSE <<"G", ".", "6", "5", "2", "D">>

\* r"(\-?\d+\s*°C\s*to\s*\+\d+\s*°C)"
TempRangePattern ==
    Group(<<Opt({"-"}), Plus(Digits), Star(Whitespace)>> \o Lit(<<"deg", "C">>) \o <<Star(Whitespace)>>
          \o Lit(<<"t", "o">>) \o <<Star(Whitespace), One({"+"}), Plus(Digits), Star(Whitespace)>>
          \o Lit(<<"deg", "C">>), 1, 14)

\* r"(\-?\d+\s*°C)"
TempPattern == Group(<<Opt({"-"}), Plus(Digits), Star(Whitespace)>> \o Lit(<<"deg", "C">>), 1, 5)

\* the single temperatures collected before the range is looked for
get_nesc_condition_list_first(text) ==
    LET temp_match == re_search(TempRangePattern, text)
        temps == re_findall(TempPattern, text)
    IN  IF temps # <<>> THEN <<"T", "e", "m", "p", "e", "r", "a", "t", "u", "r", "e", " ", "r", "a", "n", "g", "e", ":", " ">> \o Join(<<",", " ">>, temps)
        ELSE IF temp_match.ok THEN Strip(group1(text, temp_match))
        ELSE NA

get_nesc_condition(text) ==
    LET temp_match == re_search(TempRangePattern, text)
        temps == re_findall(TempPattern, text)
    IN  IF temp_match.ok THEN Strip(group1(text, temp_match))
        ELSE IF temps # <<>> THEN <<"T", "e", "m", "p", "e", "r", "a", "t", "u", "r", "e", " ", "r", "a", "n", "g", "e", ":", " ">> \o Join(<<",", " ">>, temps)
        ELSE NA

\* the Multitube tokens tested before the Unitube tokens
get_cable_type_multitube_first(text) ==
    IF Contains(text, <<"M", "u", "l", "t", "i", "t", "u", "b", "e">>) \/ Contains(text, <<"M", "T", "U", "A">>) \/ Contains(text, <<"M", "T", " ", "U", "A">>) THEN <<"M", "T">>
    ELSE IF Contains(text, <<"U", "n", "i", "t", "u", "b", "e">>) \/ Contains(text, <<"U", "T", "A">>) THEN <<"U", "T">>
    ELSE NA

get_cable_type(text) ==
    IF Contains(text, <<"U", "n", "i", "t", "u", "b", "e">>) \/ Contains(text, <<"U", "T", "A">>) THEN <<"U", "T">>
    ELSE IF Contains(text, <<"M", "u", "l", "t", "i", "t", "u", "b", "e">>) \/ Contains(text, <<"M", "T", "U", "A">>) \/ Contains(text, <<"M", "T", " ", "U", "A">>) THEN <<"M", "T">>
    ELSE NA

(***************************************************************************)
(* Fiber-count detection and variant expansion                             *)
(***************************************************************************)

\* r'(\d+)F?': the F optional
FiberCountPattern_optional_F == Group(<<Plus(Digits), Opt({"F"})>>, 1, 1)

\* r'(\d+)F'
FiberCountPattern == Group(<<Plus(Digits)>> \o Lit(<<"F">>), 1, 1)

\* the process's string hash seed decides the iteration order of a set of
\* strings: both orders of any two strings are possible outcomes
HashSeeds == {0, 1}

IterBefore(a, b, seed) ==
    LET before == Len(a) < Len(b) \/ (Len(a) = Len(b) /\ ToInt(a) < ToInt(b))
        after == Len(b) < Len(a) \/ (Len(a) = Len(b) /\ ToInt(b) < ToInt(a))
    IN  IF seed = 0 THEN before ELSE after

RECURSIVE list_of_set(_, _)
\* list(set(...)): the elements once each, in the set's iteration order
list_of_set(S, seed) ==
    IF S = {} THEN <<>>
    ELSE LET x == CHOOSE x \in S : \A y \in S \ {x} : IterBefore(x, y, seed)
         IN  <<x>> \o list_of_set(S \ {x}, seed)

RECURSIVE sorted_key_int(_)
\* sorted(..., key=int): stable, so equal keys keep the order they came in
sorted_key_int(s) ==
    IF s = <<>> THEN <<>>
    ELSE LET front == sorted_key_int(SubSeq(s, 1, Len(s) - 1))
             x == s[Len(s)]
             n == Cardinality({k \in 1..Len(front) : ToInt(front[k]) <= ToInt(x)})
         IN  SubSeq(front, 1, n) \o <<x>> \o SubSeq(front, n + 1, Len(front))

text_fcs(text) == re_findall(FiberCountPattern, text)

fiber_counts(text, seed) ==
    sorted_key_int(list_of_set({text_fcs(text)[k] : k \in 1..Len(text_fcs(text))}, seed))

\* f"{fc} {cable_description}": the suffix forgotten
detailed_desc_no_suffix(fc, cable_description) == fc \o <<" ">> \o cable_description

\* f"{fc}F {cable_description}"
detailed_desc(fc, cable_description) == fc \o <<"F", " ">> \o cable_description

\* the text that follows the first occurrence of sub
text_after(text, sub) ==
    IF Contains(text, sub)
    THEN SubSeq(text, Len(sub) + (CHOOSE k \in 1..Len(text) :
            /\ SubSeq(text, k, k + Len(sub) - 1) = sub
            /\ \A j \in 1..(k - 1) : SubSeq(text, j, j + Len(sub) - 1) # sub), Len(text))
    ELSE text

\* the tensile value looked up per variant, in the text after its count
cable_record_per_variant(filename, text, fc, cable_description) ==
    [cableID |-> 0,
     cableDescription |-> detailed_desc(fc, cable_description),
     fiberCount |-> fc \o <<"F">>,
     typeofCable |-> get_cable_type(text),
     span |-> NA,
     tube |-> get_tube_type(text),
     tubeColorCoding |-> NA,
     fiberType |-> get_detailed_fiber_type(text, fc),
     diameter |-> extract_parameter_value(text, <<"c", "a", "b", "l", "e", " ", "d", "i", "a", "m", "e", "t", "e", "r">>),
     tensile |-> extract_parameter_value(text_after(text, fc \o <<"F">>), <<"t", "e", "n", "s", "i", "l", "e", " ", "s", "t", "r", "e", "n", "g", "t", "h">>),
     nescCondition |-> get_nesc_condition(text),
     crush |-> extract_parameter_value(text, <<"c", "r", "u", "s", "h", " ", "r", "e", "s", "i", "s", "t", "a", "n", "c", "e">>),
     blowingLength |-> NA,
     datasheetURL |-> filename,
     isActive |-> <<"Y">>]

\* the document's stem (Path(filename).stem) in place of its name
cable_record_url_stem(filename, text, fc, cable_description) ==
    [cableID |-> 0,
     cableDescription |-> detailed_desc(fc, cable_description),
     fiberCount |-> fc \o <<"F">>,
     typeofCable |-> get_cable_type(text),
     span |-> NA,
     tube |-> get_tube_type(text),
     tubeColorCoding |-> NA,
     fiberType |-> get_detailed_fiber_type(text, fc),
     diameter |-> extract_parameter_value(text, <<"c", "a", "b", "l", "e", " ", "d", "i", "a", "m", "e", "t", "e", "r">>),
     tensile |-> extract_parameter_value(text, <<"t", "e", "n", "s", "i", "l", "e", " ", "s", "t", "r", "e", "n", "g", "t", "h">>),
     nescCondition |-> get_nesc_condition(text),
     crush |-> extract_parameter_value(text, <<"c", "r", "u", "s", "h", " ", "r", "e", "s", "i", "s", "t", "a", "n", "c", "e">>),
     blowingLength |-> NA,
     datasheetURL |-> SubSeq(filename, 1, Len(filename) - 4),
     isActive |-> <<"Y">>]

cable_record(filename, text, fc, cable_description) ==
    [cableID |-> 0,
     cableDescription |-> detailed_desc(fc, cable_description),
     fiberCount |-> fc \o <<"F">>,
     typeofCable |-> get_cable_type(text),
     span |-> NA,
     tube |-> get_tube_type(text),
     tubeColorCoding |-> NA,
     fiberType |-> get_detailed_fiber_type(text, fc),
     diameter |-> extract_parameter_value(text, <<"c", "a", "b", "l", "e", " ", "d", "i", "a", "m", "e", "t", "e", "r">>),
     tensile |-> extract_parameter_value(text, <<"t", "e", "n", "s", "i", "l", "e", " ", "s", "t", "r", "e", "n", "g", "t", "h">>),
     nescCondition |-> get_nesc_condition(text),
     crush |-> extract_parameter_value(text, <<"c", "r", "u", "s", "h", " ", "r", "e", "s", "i", "s", "t", "a", "n", "c", "e">>),
     blowingLength |-> NA,
     datasheetURL |-> filename,
     isActive |-> <<"Y">>]

\* a value passed as a document's content: a str and its characters, or a
\* value of another type
Str(text) == [kind |-> "str", text |-> text]

NonStrings == {[kind |-> "NoneType", text |-> <<>>], [kind |-> "int", text |-> <<>>]}

\* _parse_single_datasheet raises: text.lower() on a value that is no str
\* (AttributeError), or int() on a captured count it does not convert
\* (ValueError)
parse_single_datasheet_raises(content) ==
    \/ content.kind # "str"
    \/ \E k \in 1..Len(text_fcs(content.text)) : IntRaises(text_fcs(content.text)[k])

parse_single_datasheet(filename, text, seed) ==
    LET cable_description == get_cable_description(text)
        fcs == fiber_counts(text, seed)
    IN  [k \in 1..Len(fcs) |-> cable_record(filename, text, fcs[k], cable_description)]

(***************************************************************************)
(* parse_datasheets: the loop over the mapping, one document a step        *)
(***************************************************************************)

\* all_cables.insert(0, cable) in place of append: the newest document first
append_cables_front(cables, parsed_cables) ==
    [k \in 1..Len(parsed_cables) |-> [parsed_cables[k] EXCEPT !.cableID = 0]] \o cables

\* cable['cableID'] = 0; all_cables.append(cable), for each cable in turn
append_cables(cables, parsed_cables) ==
    cables \o [k \in 1..Len(parsed_cables) |-> [parsed_cables[k] EXCEPT !.cableID = 0]]

\* the try body ran to its end for the next document
ParseDocument ==
    /\ pc = "loop"
    /\ i < Len(files)
    /\ ~parse_single_datasheet_raises(files[i + 1].content)
    /\ all_cables' = append_cables(all_cables,
            parse_single_datasheet(files[i + 1].filename, files[i + 1].content.text, hashseed))
    /\ i' = i + 1
    /\ UNCHANGED <<files, hashseed, pc, printed>>
    /\ UNCHANGED <<validator_vars, poster, upload_vars, pipeline_vars, frames, watcher_vars>>

\* no except clause: the exception leaves parse_datasheets
PropagateException ==
    /\ pc = "loop"
    /\ i < Len(files)
    /\ parse_single_datasheet_raises(files[i + 1].content)
    /\ pc' = "raised"
    /\ UNCHANGED <<files, hashseed, i, all_cables, printed>>
    /\ UNCHANGED <<validator_vars, poster, upload_vars, pipeline_vars, frames, watcher_vars>>

\* except Exception: the document is reported and the loop goes on
SkipDocument ==
    /\ pc = "loop"
    /\ i < Len(files)
    /\ parse_single_datasheet_raises(files[i + 1].content)
    /\ printed' = Append(printed, files[i + 1].filename)
    /\ i' = i + 1
    /\ UNCHANGED <<files, hashseed, pc, all_cables>>
    /\ UNCHANGED <<validator_vars, poster, upload_vars, pipeline_vars, frames, watcher_vars>>

\* return all_cables
Return ==
    /\ pc = "loop"
    /\ i = Len(files)
    /\ pc' = "done"
    /\ UNCHANGED <<files, hashseed, i, all_cables, printed>>
    /\ UNCHANGED <<validator_vars, poster, upload_vars, pipeline_vars, frames, watcher_vars>>

Next == ParseDocument \/ SkipDocument \/ Return

\* the try statement on one document of the mapping
parse_document(cables, doc, seed) ==
    IF parse_single_datasheet_raises(doc.content) THEN cables
    ELSE append_cables(cables, parse_single_datasheet(doc.filename, doc.content.text, seed))

RECURSIVE parse_datasheets(_, _)
\* parse_datasheets(files): what the loop of ParseDocument and SkipDocument
\* has in all_cables when it returns
parse_datasheets(mapping, seed) ==
    IF mapping = <<>> THEN <<>>
    ELSE parse_document(parse_datasheets(SubSeq(mapping, 1, Len(mapping) - 1), seed), mapping[Len(mapping)], seed)

(***************************************************************************)
(* Inputs                                                                  *)
(***************************************************************************)

MaxDocs == 2

MaxAtoms == 3

FileNames == {<<"a", ".", "p", "d", "f">>, <<"b", ".", "p", "d", "f">>, <<"c", ".", "p", "d", "f">>}

RECURSIVE TextsOver(_, _)
\* the texts made of at most n of the given pieces
TextsOver(atoms, n) ==
    IF n = 0 THEN {<<>>}
    ELSE LET shorter == TextsOver(atoms, n - 1)
         IN  shorter \cup {t \o a : t \in shorter, a \in atoms}

\* "", "no counts", "24F", "024F 24F", "UTA 48F\n24F", and a count of too many
\* digits for int()
BatchTexts ==
    {<<>>, <<"n", "o", " ", "c", "o", "u", "n", "t", "s">>, <<"2", "4", "F">>, <<"0", "2", "4", "F", " ", "2", "4", "F">>, <<"U", "T", "A", " ", "4", "8", "F", "\n", "2", "4", "F">>, <<DigitRun>> \o <<"F">>}

BatchContents == NonStrings \cup {Str(t) : t \in BatchTexts}

\* a mapping is its items in iteration order: distinct keys, any order
Mappings(names, contents, n) ==
    {m \in UNION {[1..k -> [filename : names, content : contents]] : k \in 0..n} :
        \A a, b \in 1..Len(m) : a # b => m[a].filename # m[b].filename}

\* "24F", "48F", "96F", "0", " ", a long digit run
CountAtoms == {<<"2", "4", "F">>, <<"4", "8", "F">>, <<"9", "6", "F">>, <<"0">>, <<" ">>, <<DigitRun>>}

\* "24F", "144F", "0", "OM", "G.65"
TypeAtoms == {<<"2", "4", "F">>, <<"1", "4", "4", "F">>, <<"0">>, <<"O", "M">>, <<"G", ".", "6", "5">>}

\* "12F", "UTA", "Micro", "15", " N", "x", "F"
AttrAtoms == {<<"1", "2", "F">>, <<"U", "T", "A">>, <<"M", "i", "c", "r", "o">>, <<"1", "5">>, <<" ", "N">>, <<"x">>, <<"F">>}

\* "12F", "288F", "20 N/10 cm", " 2.5 (pm) 0.1 mm", "-40(deg)C to", "+70(deg)C"
MeasureAtoms == {<<"1", "2", "F">>, <<"2", "8", "8", "F">>, <<"2", "0", " ", "N", "/", "1", "0", " ", "c", "m">>, <<" ", "2", ".", "5", " ">> \o <<"pm">> \o <<" ", "0", ".", "1", " ", "m", "m">>,
                 <<"-", "4", "0">> \o <<"deg">> \o <<"C", " ", "t", "o">>, <<"+", "7", "0">> \o <<"deg">> \o <<"C">>}

\* "12F MT", a line break, a space, "UA", and "20", a line break, " N"
WhitespaceAtoms == {<<"1", "2", "F", " ", "M", "T">>, <<"\n">>, <<" ">>, <<"U", "A">>, <<"2", "0", "\n", " ", "N">>}

\* the texts of one document: at most MaxAtoms pieces of one of the families
DocTexts ==
    TextsOver(CountAtoms, MaxAtoms) \cup TextsOver(TypeAtoms, MaxAtoms)
    \cup TextsOver(AttrAtoms, MaxAtoms) \cup TextsOver(MeasureAtoms, MaxAtoms)
    \cup TextsOver(WhitespaceAtoms, MaxAtoms)

\* "12F", three phrases in mixed case, "MTUA", "MT UA"
PhraseAtoms ==
    {<<"1", "2", "F">>, <<"o", "u", "t", "d", "o", "o", "r", " ", "l", "o", "o", "s", "e", "-", "t", "u", "b", "e", " ", "c", "a", "b", "l", "e">>, <<"A", "R", "M", "O", "U", "R", "E", "D", " ", "L", "O", "O", "S", "E", "-", "T", "U", "B", "E", " ", "C", "A", "B", "L", "E">>, <<"U", "n", "a", "r", "m", "o", "u", "r", "e", "d", " ", "l", "o", "o", "s", "e", "-", "t", "u", "b", "e", " ", "c", "a", "b", "l", "e">>,
     <<"M", "T", "U", "A">>, <<"M", "T", " ", "U", "A">>}

\* "12F", the four vendor codes, two phrases
CodeAtoms ==
    {<<"1", "2", "F">>, <<"M", "T", "U", "A">>, <<"U", "T", "A">>, <<"M", "I", "C", "R", "O">>, <<"M", "T", " ", "U", "A">>, <<"M", "i", "c", "r", "o", " ", "l", "o", "o", "s", "e", "-", "t", "u", "b", "e", " ", "c", "a", "b", "l", "e">>, <<"I", "n", "d", "o", "o", "r", " ", "L", "S", "Z", "H", " ", "l", "o", "o", "s", "e", "-", "t", "u", "b", "e", " ", "c", "a", "b", "l", "e">>}

\* "12F", the tube tokens and lower-case forms of them
TubeAtoms == {<<"1", "2", "F">>, <<"U", "n", "i", "t", "u", "b", "e">>, <<"M", "u", "l", "t", "i", "t", "u", "b", "e">>, <<"M", "T", " ", "U", "A">>, <<"M", "i", "c", "r", "o">>, <<"u", "n", "i", "t", "u", "b", "e">>, <<"u", "t", "a">>}

\* "12F", "-40(deg)C to", "+70(deg)C", " 70(deg)C", "5 "
TempAtoms == {<<"1", "2", "F">>, <<"-", "4", "0", "deg", "C", " ", "t", "o">>, <<"+", "7", "0", "deg", "C">>, <<" ", "7", "0", "deg", "C">>, <<"5", " ">>}

\* "12F", "20 N/10 cm", "Installation: 15 N", "Short Term: 30 n", "4", a tab, "new"
TensileAtoms == {<<"1", "2", "F">>, <<"2", "0", " ", "N", "/", "1", "0", " ", "c", "m">>, <<"I", "n", "s", "t", "a", "l", "l", "a", "t", "i", "o", "n", ":", " ", "1", "5", " ", "N">>, <<"S", "h", "o", "r", "t", " ", "T", "e", "r", "m", ":", " ", "3", "0", " ", "n">>, <<"4", "\t">>, <<"n", "e", "w">>}

\* the texts the attribute rules are tried on
AttributeTexts ==
    TextsOver(PhraseAtoms, MaxAtoms) \cup TextsOver(CodeAtoms, MaxAtoms)
    \cup TextsOver(TubeAtoms, MaxAtoms) \cup TextsOver(TempAtoms, MaxAtoms)
    \cup TextsOver(TensileAtoms, MaxAtoms)

AttributeContents == NonStrings \cup {Str(t) : t \in AttributeTexts}

DocContents == NonStrings \cup {Str(t) : t \in DocTexts}

(***************************************************************************)
(* validate_json_output (combined_scraper.py, and its older copy in        *)
(* main.py).  A record is a mapping from keys to Python values; a value is *)
(* a str with its characters, an int with its decimal digits, or None.     *)
(***************************************************************************)

parser_vars == <<files, hashseed, pc, i, all_cables, printed>>

None == [kind |-> "NoneType", text |-> <<>>]

PyInt(digits) == [kind |-> "int", text |-> digits]

\* bool(value), as an if statement takes it
Truthy(value) ==
    IF value.kind = "str" THEN value.text # <<>>
    ELSE IF value.kind = "int" THEN ToInt(value.text) # 0
    ELSE FALSE

\* str.replace(old, '') for a one-character old
Replace(s, old) == SelectSeq(s, LAMBDA c : c # old)

\* str.isdigit()
IsDigit(s) == s # <<>> /\ \A k \in 1..Len(s) : s[k] \in Digits

required_fields == <<"fiberCount", "typeofCable", "fiberType", "diameter", "tensile", "crush">>

\* the first required field that is no key of the record, 0 when none is
first_missing(record) ==
    IF \A k \in 1..Len(required_fields) : required_fields[k] \in DOMAIN record THEN 0
    ELSE CHOOSE k \in 1..Len(required_fields) :
            /\ required_fields[k] \notin DOMAIN record
            /\ \A j \in 1..(k - 1) : required_fields[j] \in DOMAIN record

\* the two checks that only print a warning
type_warnings(record) ==
    (IF record["typeofCable"] \notin {Str(<<"U", "T">>), Str(<<"M", "T">>), Str(NA)}
     THEN <<"Invalid cable type">> ELSE <<>>)
    \o (IF record["fiberType"] \notin {Str(<<"S", "M">>), Str(<<"M", "M">>), Str(NA)}
        THEN <<"Invalid fiber type">> ELSE <<>>)

Returns(value, warnings) == [raised |-> FALSE, value |-> value, warnings |-> warnings]

\* .replace or .isdigit looked up on a value that is no str
AttributeError == [raised |-> TRUE, value |-> FALSE, warnings |-> <<>>]

\* the check of main.py: the whole fiberCount must be digits
main_validate_json_output(record) ==
    IF first_missing(record) # 0 THEN Returns(FALSE, <<"Missing field">>)
    ELSE IF Truthy(record["fiberCount"]) /\ record["fiberCount"].kind # "str" THEN AttributeError
    ELSE IF Truthy(record["fiberCount"]) /\ ~IsDigit(record["fiberCount"].text)
    THEN Returns(FALSE, <<"Invalid fiber count">>)
    ELSE Returns(TRUE, type_warnings(record))

\* the check of combined_scraper.py: fiberCount with every "F" taken out
\* must be digits
validate_json_output(record) ==
    IF first_missing(record) # 0 THEN Returns(FALSE, <<"Missing field">>)
    ELSE IF Truthy(record["fiberCount"]) /\ record["fiberCount"].kind # "str" THEN AttributeError
    ELSE IF Truthy(record["fiberCount"]) /\ ~IsDigit(Replace(record["fiberCount"].text, "F"))
    THEN Returns(FALSE, <<"Invalid fiber count">>)
    ELSE Returns(TRUE, type_warnings(record))

\* a record of the parser as the mapping of Python values it is
as_dict(cable) ==
    [k \in DOMAIN cable |-> IF k = "cableID" THEN PyInt(<<"0">>) ELSE Str(cable[k])]

\* validate_json_output(cable_data) of combined_scraper.py
ValidateCombined ==
    /\ validation.by = "nobody"
    /\ validation' = [by |-> "combined_scraper", out |-> validate_json_output(cable_data)]
    /\ UNCHANGED <<parser_vars, cable_data, pipeline_vars, poster, upload_vars, frames, watcher_vars>>

\* validate_json_output(cable_data) of main.py
ValidateMain ==
    /\ validation.by = "nobody"
    /\ validation' = [by |-> "main", out |-> main_validate_json_output(cable_data)]
    /\ UNCHANGED <<parser_vars, cable_data, pipeline_vars, poster, upload_vars, frames, watcher_vars>>

NextValidator == ValidateCombined \/ ValidateMain

\* the values a record's fiberCount is given: str values and values of other
\* types
FiberCountValues ==
    {Str(<<"1", "2", "F">>), Str(<<"1", "4", "4", "F">>), Str(<<"1", "2">>), Str(<<"1", "2", "X">>), Str(<<>>), Str(<<"F">>), Str(<<"1", "F", "2", "F">>),
     PyInt(<<"1", "2">>), PyInt(<<"0">>), None}

CableTypeValues == {Str(<<"U", "T">>), Str(<<"X", "X">>), None}

FiberTypeValues == {Str(<<"S", "M">>), Str(<<"G", ".", "6", "5", "2", "D">>), PyInt(<<"7">>)}

RequiredKeys == {required_fields[k] : k \in 1..Len(required_fields)}

\* all six required keys, or all but one
KeySets == {RequiredKeys} \cup {RequiredKeys \ {f} : f \in RequiredKeys}

HandMadeRecords ==
    {[k \in keys |-> IF k = "fiberCount" THEN fc
                     ELSE IF k = "typeofCable" THEN ct
                     ELSE IF k = "fiberType" THEN ft
                     ELSE Str(NA)] :
        keys \in KeySets, fc \in FiberCountValues, ct \in CableTypeValues, ft \in FiberTypeValues}

\* "24F UTA OM", "144F MTUA G.65 12F"
ValidatorTexts == {<<"2", "4", "F", " ", "U", "T", "A", " ", "O", "M">>, <<"1", "4", "4", "F", " ", "M", "T", "U", "A", " ", "G", ".", "6", "5", " ", "1", "2", "F">>}

\* the elements of a list
Elements(list) == {list[k] : k \in 1..Len(list)}

\* the records parse_datasheets gives for these texts
ParsedRecords ==
    UNION {Elements(parse_datasheets(<<[filename |-> <<"a", ".", "p", "d", "f">>, content |-> Str(t)]>>, seed)) :
           t \in ValidatorTexts, seed \in HashSeeds}

ValidatorInputs == HandMadeRecords \cup {as_dict(r) : r \in ParsedRecords}

(***************************************************************************)
(* The processing pipeline of combined_scraper.py (PDFProcessor and the    *)
(* entry points built on it), main.py's main, and the /api/process-all     *)
(* endpoint of app.py.  A PDF of the data directory is its name and what   *)
(* extract_text() gives for its page; the output directory is a mapping    *)
(* from the names of its JSON files to the records they hold (json.dump    *)
(* and json.load of a mapping of str and int values give the mapping       *)
(* back); posted holds the bodies of the requests sent to the API, in the  *)
(* order they were sent.  The data directory exists and writing a file to  *)
(* the output directory succeeds.                                          *)
(***************************************************************************)

PageBreak == <<"\n", "-", "-", "-", " ", "P", "A", "G", "E", " ", "B", "R", "E", "A", "K", " ", "-", "-", "-", "\n">>

StartsWith(s, prefix) == Len(s) >= Len(prefix) /\ SubSeq(s, 1, Len(prefix)) = prefix

EndsWith(s, suffix) == Len(s) >= Len(suffix) /\ SubSeq(s, Len(s) - Len(suffix) + 1, Len(s)) = suffix

\* Path(name).stem: the name without its last suffix
stem(name) ==
    LET dots == {k \in 2..(Len(name) - 1) : name[k] = "."}
    IN  IF dots = {} THEN name
        ELSE SubSeq(name, 1, (CHOOSE k \in dots : \A j \in dots : j <= k) - 1)

\* f"{original_filename}_{fiber_count}.json" of combined_scraper.py
output_filename(cable) == stem(cable.datasheetURL) \o <<"_">> \o cable.fiberCount \o <<".", "j", "s", "o", "n">>

\* f"{original_filename}_{fiber_count}F.json" of main.py
main_output_filename(cable) == stem(cable.datasheetURL) \o <<"_">> \o cable.fiberCount \o <<"F", ".", "j", "s", "o", "n">>

\* open(output_path, 'w') and json.dump(cable, f)
write_json(dir, name, cable) ==
    [n \in DOMAIN dir \cup {name} |-> IF n = name THEN cable ELSE dir[n]]

RECURSIVE save_cables(_, _)
\* the files of the output directory after the loop over all_cables_data
save_cables(dir, cables) ==
    IF cables = <<>> THEN dir
    ELSE write_json(save_cables(dir, SubSeq(cables, 1, Len(cables) - 1)),
                    output_filename(cables[Len(cables)]), cables[Len(cables)])

\* output_dir.glob(f"{pdf_stem}_*.json")
glob_json(dir, pdf_stem) ==
    {n \in DOMAIN dir : /\ StartsWith(n, pdf_stem \o <<"_">>)
                        /\ EndsWith(n, <<".", "j", "s", "o", "n">>)
                        /\ Len(n) >= Len(pdf_stem) + Len(<<"_", ".", "j", "s", "o", "n">>)}

\* json_dir.glob("*.json")
glob_all_json(dir) == {n \in DOMAIN dir : EndsWith(n, <<".", "j", "s", "o", "n">>)}

\* the orders in which a directory listing can give the names
Listings(names) ==
    {l \in [1..Cardinality(names) -> names] : \A a, b \in 1..Cardinality(names) : a # b => l[a] # l[b]}

\* the records loaded from the files of a listing
load_json(dir, listing) == [k \in 1..Len(listing) |-> dir[listing[k]]]

\* the validator's verdict on each cable of the loop
validated(cables) ==
    [k \in 1..Len(cables) |-> [cable |-> cables[k], valid |-> validate_json_output(as_dict(cables[k])).value]]

main_validated(cables) ==
    [k \in 1..Len(cables) |-> [cable |-> cables[k], valid |-> main_validate_json_output(as_dict(cables[k])).value]]

\* valid_count after the loop
count_valid(entries) == Cardinality({k \in 1..Len(entries) : entries[k].valid})

\* post_multiple_cables(cable_data_list): one request a record, in order
\* (every record of the parser has the fields post_cable_data asks for)
post_multiple_cables(sent, cable_data_list) == sent \o cable_data_list

\* what the program holds while a call runs
ProcessState == [output_dir |-> output_dir, posted |-> posted, cable_log |-> cable_log,
                 valid_count |-> valid_count, raised |-> FALSE]

\* the loop over all_cables_data, and the posting that follows it
process_cables(st, all_cables_data, entries, url) ==
    IF all_cables_data = <<>> THEN st
    ELSE IF \E k \in 1..Len(all_cables_data) : validate_json_output(as_dict(all_cables_data[k])).raised
    THEN [st EXCEPT !.raised = TRUE]
    ELSE [output_dir |-> save_cables(st.output_dir, all_cables_data),
          posted |-> IF url # "" THEN post_multiple_cables(st.posted, all_cables_data) ELSE st.posted,
          cable_log |-> st.cable_log \o entries,
          valid_count |-> count_valid(entries),
          raised |-> FALSE]

\* "".join(page.extract_text() + "\n--- PAGE BREAK ---\n" for page in pdf.pages)
full_text(pdf) == pdf.content.text \o PageBreak

\* the cables of parse_datasheets({pdf_name: full_text})
pdf_cables(pdf, seed) == parse_datasheets(<<[filename |-> pdf.filename, content |-> Str(full_text(pdf))]>>, seed)

with_entries(st, all_cables_data, url) == process_cables(st, all_cables_data, validated(all_cables_data), url)

\* PDFProcessor._process_single_pdf(pdf_path): None + str is a TypeError,
\* which is printed and raised again
process_single_pdf(st, pdf, seed, url) ==
    IF st.raised THEN st
    ELSE IF pdf.content.kind # "str" THEN [st EXCEPT !.raised = TRUE]
    ELSE with_entries(st, pdf_cables(pdf, seed), url)

RECURSIVE process_existing_files(_, _, _, _)
\* PDFProcessor.process_existing_files(): every PDF of the data directory in
\* turn; an exception of one ends the loop
process_existing_files(st, pdfs, seed, url) ==
    IF pdfs = <<>> THEN st
    ELSE process_single_pdf(process_existing_files(st, SubSeq(pdfs, 1, Len(pdfs) - 1), seed, url),
                            pdfs[Len(pdfs)], seed, url)

\* the PDF of the data directory that has the name
pdf_named(name) == data_dir[CHOOSE k \in 1..Len(data_dir) : data_dir[k].filename = name]

pdf_exists(name) == \E k \in 1..Len(data_dir) : data_dir[k].filename = name

\* the directory, the requests and the counters as a step leaves them
Becomes(st) ==
    /\ output_dir' = st.output_dir
    /\ posted' = st.posted
    /\ cable_log' = st.cable_log
    /\ valid_count' = st.valid_count

NoResult == [success |-> FALSE, returned |-> FALSE]

\* the variables a call's step leaves alone
other_vars == <<parser_vars, validator_vars, frames, watcher_vars, poster, upload_vars>>

(* run_all_functionalities *)

\* step 1: processor.process_existing_files()
RunAllProcess ==
    /\ call.name = "run_all_functionalities"
    /\ step = "start"
    /\ \E st \in {process_existing_files(ProcessState, data_dir, hashseed, API_URL)} :
        /\ Becomes(st)
        /\ step' = IF st.raised THEN "raised" ELSE "post"
    /\ UNCHANGED <<API_URL, data_dir, call, api_results, result, response, other_vars>>

\* step 2 with an API URL: post_existing_json_to_api() posts every JSON file
\* of the output directory and returns nothing
RunAllPost ==
    /\ call.name = "run_all_functionalities"
    /\ step = "post"
    /\ API_URL # ""
    /\ \E listing \in Listings(glob_all_json(output_dir)) :
        posted' = post_multiple_cables(posted, load_json(output_dir, listing))
    /\ api_results' = [kind |-> "None", results |-> <<>>]
    /\ step' = "summary"
    /\ UNCHANGED <<API_URL, data_dir, output_dir, call, cable_log, valid_count, result, response, other_vars>>

\* step 2 without one
RunAllSkipPost ==
    /\ call.name = "run_all_functionalities"
    /\ step = "post"
    /\ API_URL = ""
    /\ api_results' = [kind |-> "dict", results |-> <<>>]
    /\ step' = "summary"
    /\ UNCHANGED <<API_URL, data_dir, output_dir, call, cable_log, valid_count, posted, result, response, other_vars>>

\* step 3: api_results['total_processed'] of None is a TypeError, which
\* nothing in run_all_functionalities catches
RunAllSummary ==
    /\ call.name = "run_all_functionalities"
    /\ step = "summary"
    /\ IF api_results.kind = "None"
       THEN step' = "raised" /\ UNCHANGED result
       ELSE /\ step' = "returned"
            /\ result' = [success |-> TRUE, returned |-> TRUE, pdf_files_processed |-> Len(data_dir),
                          json_files_generated |-> Cardinality(glob_all_json(output_dir))]
    /\ UNCHANGED <<API_URL, data_dir, output_dir, call, cable_log, valid_count, posted, api_results, response, other_vars>>

\* POST /api/process-all: 200 when the call returned success, 500 when it
\* returned without success or raised
ProcessAllFilesResponds ==
    /\ call.name = "run_all_functionalities"
    /\ step \in {"returned", "raised"}
    /\ response = 0
    /\ response' = IF step = "returned" /\ result.success THEN 200 ELSE 500
    /\ UNCHANGED <<API_URL, data_dir, output_dir, call, step, cable_log, valid_count, posted, api_results, result, other_vars>>

(* process_uploaded_pdf(pdf_filename) *)

\* step 1: the PDF is looked up and _process_single_pdf runs on it; an
\* exception is caught and reported in the result
UploadProcess ==
    /\ call.name = "process_uploaded_pdf"
    /\ step = "start"
    /\ IF ~pdf_exists(call.pdf_filename)
       THEN /\ result' = [success |-> FALSE, returned |-> TRUE, pdf_processed |-> FALSE, cables_extracted |-> 0, api_total_count |-> 0]
            /\ step' = "returned"
            /\ UNCHANGED <<output_dir, posted, cable_log, valid_count>>
       ELSE \E st \in {process_single_pdf(ProcessState, pdf_named(call.pdf_filename), hashseed, API_URL)} :
                /\ Becomes(st)
                /\ step' = IF st.raised THEN "returned" ELSE "post"
                /\ result' = IF st.raised
                             THEN [success |-> FALSE, returned |-> TRUE, pdf_processed |-> FALSE, cables_extracted |-> 0, api_total_count |-> 0]
                             ELSE result
    /\ UNCHANGED <<API_URL, data_dir, call, api_results, response, other_vars>>

\* step 2: the JSON files named after the PDF are counted, loaded and
\* posted, and the result is returned
UploadPost ==
    /\ call.name = "process_uploaded_pdf"
    /\ step = "post"
    /\ LET json_files == glob_json(output_dir, stem(call.pdf_filename))
           cables_extracted == Cardinality(json_files)
       IN  \E listing \in Listings(json_files) :
              LET all_cables_loaded == IF API_URL # "" /\ cables_extracted > 0
                                       THEN load_json(output_dir, listing) ELSE <<>>
              IN  /\ posted' = post_multiple_cables(posted, all_cables_loaded)
                  /\ api_results' = [kind |-> "list", results |-> [k \in 1..Len(all_cables_loaded) |-> all_cables_loaded[k].cableDescription]]
                  /\ result' = [success |-> TRUE, returned |-> TRUE, pdf_processed |-> TRUE, cables_extracted |-> cables_extracted,
                                api_total_count |-> Len(all_cables_loaded)]
    /\ step' = "returned"
    /\ UNCHANGED <<API_URL, data_dir, output_dir, call, cable_log, valid_count, response, other_vars>>

(* run_single_pdf_processing(pdf_filename) *)

SingleProcess ==
    /\ call.name = "run_single_pdf_processing"
    /\ step = "start"
    /\ IF ~pdf_exists(call.pdf_filename)
       THEN /\ result' = [success |-> FALSE, returned |-> TRUE, pdf_processed |-> FALSE, json_files_generated |-> 0]
            /\ step' = "returned"
            /\ UNCHANGED <<output_dir, posted, cable_log, valid_count>>
       ELSE \E st \in {process_single_pdf(ProcessState, pdf_named(call.pdf_filename), hashseed, API_URL)} :
                /\ Becomes(st)
                /\ step' = IF st.raised THEN "returned" ELSE "post"
                /\ result' = IF st.raised
                             THEN [success |-> FALSE, returned |-> TRUE, pdf_processed |-> FALSE, json_files_generated |-> 0]
                             ELSE result
    /\ UNCHANGED <<API_URL, data_dir, call, api_results, response, other_vars>>

\* with an API URL the JSON files named after the PDF are loaded and posted;
\* without one pdf_stem is never assigned, and the NameError of the result
\* is caught and reported
SinglePost ==
    /\ call.name = "run_single_pdf_processing"
    /\ step = "post"
    /\ IF API_URL # ""
       THEN LET json_files == glob_json(output_dir, stem(call.pdf_filename))
            IN  \E listing \in Listings(json_files) :
                   /\ posted' = post_multiple_cables(posted, load_json(output_dir, listing))
                   /\ api_results' = [kind |-> "list", results |-> [k \in 1..Len(listing) |-> output_dir[listing[k]].cableDescription]]
                   /\ result' = [success |-> TRUE, returned |-> TRUE, pdf_processed |-> TRUE, json_files_generated |-> Cardinality(json_files)]
       ELSE /\ api_results' = [kind |-> "list", results |-> <<>>]
            /\ result' = [success |-> FALSE, returned |-> TRUE, pdf_processed |-> FALSE, json_files_generated |-> 0]
            /\ UNCHANGED posted
    /\ step' = "returned"
    /\ UNCHANGED <<API_URL, data_dir, output_dir, call, cable_log, valid_count, response, other_vars>>

(* main() of main.py *)

\* the texts read from the PDFs: a PDF whose page gives no text is skipped
file_contents(pdfs) ==
    LET read == SelectSeq(pdfs, LAMBDA pdf : pdf.content.kind = "str")
    IN  [k \in 1..Len(read) |-> [filename |-> read[k].filename, content |-> Str(read[k].content.text \o PageBreak)]]

RECURSIVE main_save_valid_only(_, _)
\* only the cables the validator accepts are written
main_save_valid_only(dir, cables) ==
    IF cables = <<>> THEN dir
    ELSE LET before == main_save_valid_only(dir, SubSeq(cables, 1, Len(cables) - 1))
             cable == cables[Len(cables)]
         IN  IF main_validate_json_output(as_dict(cable)).value
             THEN write_json(before, main_output_filename(cable), cable)
             ELSE before

RECURSIVE main_save(_, _)
\* the loop that writes a file for every cable of all_cables_data
main_save(dir, cables) ==
    IF cables = <<>> THEN dir
    ELSE write_json(main_save(dir, SubSeq(cables, 1, Len(cables) - 1)),
                    main_output_filename(cables[Len(cables)]), cables[Len(cables)])

\* the whole of main(): read, parse, validate, save
MainRun ==
    /\ call.name = "main"
    /\ step = "start"
    /\ \E all_cables_data \in {parse_datasheets(file_contents(data_dir), hashseed)} :
        /\ output_dir' = main_save(output_dir, all_cables_data)
        /\ cable_log' = cable_log \o main_validated(all_cables_data)
        /\ valid_count' = count_valid(main_validated(all_cables_data))
    /\ step' = "returned"
    /\ UNCHANGED <<API_URL, data_dir, call, posted, api_results, result, response, other_vars>>

NextPipeline ==
    \/ RunAllProcess
    \/ RunAllPost
    \/ RunAllSkipPost
    \/ RunAllSummary
    \/ ProcessAllFilesResponds
    \/ UploadProcess
    \/ UploadPost
    \/ SingleProcess
    \/ SinglePost
    \/ MainRun

\* the value shipped in combined_scraper.py, and no URL
API_URLs == {"", "https://www.hfcl.com/testapiforsap/api/datasheet/configureDatasheet"}

PdfNames == {<<"a", ".", "p", "d", "f">>, <<"a", "_", "b", ".", "p", "d", "f">>, <<"b", ".", "p", "d", "f">>}

\* what extract_text() gives for the page of a PDF: None, "24F",
\* "12F UTA 24F", "no counts"
PageContents == {None, Str(<<"2", "4", "F">>), Str(<<"1", "2", "F", " ", "U", "T", "A", " ", "2", "4", "F">>), Str(<<"n", "o", " ", "c", "o", "u", "n", "t", "s">>)}

EmptyDir == [n \in {} |-> n]

\* the output directory before the call: empty, with the file an earlier
\* version of a.pdf left, or with the file an earlier a_b.pdf left
EarlierOutputs ==
    {EmptyDir,
     save_cables(EmptyDir, parse_datasheets(<<[filename |-> <<"a", ".", "p", "d", "f">>, content |-> Str(<<"9", "6", "F">> \o PageBreak)]>>, 0)),
     save_cables(EmptyDir, parse_datasheets(<<[filename |-> <<"a", "_", "b", ".", "p", "d", "f">>, content |-> Str(<<"2", "4", "F">> \o PageBreak)]>>, 0))}

Calls ==
    {[name |-> "run_all_functionalities", pdf_filename |-> <<>>],
     [name |-> "main", pdf_filename |-> <<>>],
     [name |-> "process_uploaded_pdf", pdf_filename |-> <<"a", ".", "p", "d", "f">>],
     [name |-> "run_single_pdf_processing", pdf_filename |-> <<"a", ".", "p", "d", "f">>]}

(***************************************************************************)
(* parse_datasheets called by several callers at once: every call has its  *)
(* own files, all_cables and loop position (the function keeps nothing at  *)
(* module level), and the calls' steps interleave                          *)
(***************************************************************************)

Callers == {"caller1", "caller2"}

CallerNames == {<<"a", ".", "p", "d", "f">>, <<"b", ".", "p", "d", "f">>}

\* None, "24F", "024F 24F"
CallerContents == {None, Str(<<"2", "4", "F">>), Str(<<"0", "2", "4", "F", " ", "2", "4", "F">>)}

NewFrame(mapping) == [files |-> mapping, i |-> 0, all_cables |-> <<>>, pc |-> "loop", printed |-> <<>>]

\* every call appends to one list kept at module level
append_to_frame_shared(fs, c, parsed_cables) ==
    [d \in DOMAIN fs |-> [fs[d] EXCEPT !.all_cables = append_cables(@, parsed_cables),
                                       !.i = IF d = c THEN @ + 1 ELSE @]]

\* all_cables.append(cable) on the list of the caller's own call
append_to_frame(fs, c, parsed_cables) ==
    [fs EXCEPT ![c].all_cables = append_cables(@, parsed_cables), ![c].i = @ + 1]

CallParseDocument(c) ==
    /\ frames[c].pc = "loop"
    /\ frames[c].i < Len(frames[c].files)
    /\ LET doc == frames[c].files[frames[c].i + 1]
       IN  /\ ~parse_single_datasheet_raises(doc.content)
           /\ frames' = append_to_frame(frames, c, parse_single_datasheet(doc.filename, doc.content.text, hashseed))
    /\ UNCHANGED <<parser_vars, validator_vars, poster, upload_vars, pipeline_vars, watcher_vars>>

CallSkipDocument(c) ==
    /\ frames[c].pc = "loop"
    /\ frames[c].i < Len(frames[c].files)
    /\ LET doc == frames[c].files[frames[c].i + 1]
       IN  /\ parse_single_datasheet_raises(doc.content)
           /\ frames' = [frames EXCEPT ![c].printed = Append(@, doc.filename), ![c].i = @ + 1]
    /\ UNCHANGED <<parser_vars, validator_vars, poster, upload_vars, pipeline_vars, watcher_vars>>

CallReturn(c) ==
    /\ frames[c].pc = "loop"
    /\ frames[c].i = Len(frames[c].files)
    /\ frames' = [frames EXCEPT ![c].pc = "done"]
    /\ UNCHANGED <<parser_vars, validator_vars, poster, upload_vars, pipeline_vars, watcher_vars>>

NextCallers == \E c \in Callers : CallParseDocument(c) \/ CallSkipDocument(c) \/ CallReturn(c)

(***************************************************************************)
(* PDFProcessor.process_existing_files and check_for_new_files, called on  *)
(* one PDFProcessor by polling threads.  A poll lists the directory, then  *)
(* takes the new names one at a time: the test of processed_files, the     *)
(* sleep and the processing of a name are steps other threads' steps can   *)
(* come between.  self.lock is created and never acquired.                 *)
(***************************************************************************)

Threads == {"thread1", "thread2"}

MaxPolls == 2

\* a.pdf with the page text "24F", and b.pdf with a page that has no text
DroppedPdfs ==
    {[filename |-> <<"a", ".", "p", "d", "f">>, content |-> Str(<<"2", "4", "F">>)], [filename |-> <<"b", ".", "p", "d", "f">>, content |-> None]}

NewPoll == [pc |-> "idle", new_files |-> {}, todo |-> {}, pdf_name |-> <<>>, polls |-> 0, existing |-> FALSE, returned |-> FALSE]

\* the names of the PDFs of the data directory
pdf_names == {data_dir[k].filename : k \in 1..Len(data_dir)}

\* the PDFs process_existing_files gets to: all, or those up to the first
\* whose processing raises
reached(pdfs) ==
    LET raising == {k \in 1..Len(pdfs) : pdfs[k].content.kind # "str"}
    IN  IF raising = {} THEN pdfs
        ELSE SubSeq(pdfs, 1, CHOOSE k \in raising : \A j \in raising : k <= j)

Processed(t, name, raised) == [thread |-> t, pdf_name |-> name, raised |-> raised]

\* process_existing_files(): each name is added to processed_files before
\* its PDF is processed; an exception leaves the method
WatchExistingFiles(t) ==
    /\ polls[t].pc = "idle"
    /\ polls[t].polls = 0
    /\ ~polls[t].existing
    /\ \E st \in {process_existing_files(ProcessState, data_dir, hashseed, API_URL)} :
        /\ Becomes(st)
        /\ polls' = [polls EXCEPT ![t].existing = TRUE, ![t].pc = IF st.raised THEN "raised" ELSE "idle"]
    /\ \E done \in {reached(data_dir)} :
        /\ processed_files' = processed_files \cup {done[k].filename : k \in 1..Len(done)}
        /\ processing_log' = processing_log \o [k \in 1..Len(done) |-> Processed(t, done[k].filename, done[k].content.kind # "str")]
    /\ UNCHANGED <<lock, API_URL, data_dir, call, step, api_results, result, response, parser_vars, validator_vars, poster, upload_vars, frames>>

\* check_for_new_files(): the directory is listed and the processed names
\* are taken out
ListNewFiles(t) ==
    /\ polls[t].pc = "idle"
    /\ polls[t].polls < MaxPolls
    /\ polls' = [polls EXCEPT ![t].pc = "loop",
                              ![t].new_files = pdf_names \ processed_files,
                              ![t].todo = pdf_names \ processed_files]
    /\ UNCHANGED <<processed_files, lock, processing_log, pipeline_vars, parser_vars, validator_vars, poster, upload_vars, frames>>

\* the next name of new_files, in the set's order: if pdf_name not in
\* self.processed_files
CheckNewFile(t) ==
    /\ polls[t].pc = "loop"
    /\ \E name \in polls[t].todo :
        polls' = [polls EXCEPT ![t].todo = @ \ {name},
                               ![t].pdf_name = name,
                               ![t].pc = IF name \notin processed_files THEN "processing" ELSE "loop"]
    /\ UNCHANGED <<processed_files, lock, processing_log, pipeline_vars, parser_vars, validator_vars, poster, upload_vars, frames>>

\* the name is added before _process_single_pdf is called, as
\* process_existing_files does
ProcessNewFile_adds_name_first(t) ==
    /\ polls[t].pc = "processing"
    /\ \E st \in {process_single_pdf(ProcessState, pdf_named(polls[t].pdf_name), hashseed, API_URL)} :
        /\ Becomes(st)
        /\ processed_files' = processed_files \cup {polls[t].pdf_name}
        /\ processing_log' = Append(processing_log, Processed(t, polls[t].pdf_name, st.raised))
    /\ polls' = [polls EXCEPT ![t].pc = "loop"]
    /\ UNCHANGED <<lock, API_URL, data_dir, call, step, api_results, result, response, parser_vars, validator_vars, poster, upload_vars, frames>>

\* after the sleep: _process_single_pdf, and the name is added when it
\* returned; an exception is printed
ProcessNewFile(t) ==
    /\ polls[t].pc = "processing"
    /\ \E st \in {process_single_pdf(ProcessState, pdf_named(polls[t].pdf_name), hashseed, API_URL)} :
        /\ Becomes(st)
        /\ processed_files' = IF st.raised THEN processed_files ELSE processed_files \cup {polls[t].pdf_name}
        /\ processing_log' = Append(processing_log, Processed(t, polls[t].pdf_name, st.raised))
    /\ polls' = [polls EXCEPT ![t].pc = "loop"]
    /\ UNCHANGED <<lock, API_URL, data_dir, call, step, api_results, result, response, parser_vars, validator_vars, poster, upload_vars, frames>>

\* return len(new_files) > 0
FinishPoll(t) ==
    /\ polls[t].pc = "loop"
    /\ polls[t].todo = {}
    /\ polls' = [polls EXCEPT ![t].pc = "idle", ![t].polls = @ + 1, ![t].returned = (polls[t].new_files # {})]
    /\ UNCHANGED <<processed_files, lock, processing_log, pipeline_vars, parser_vars, validator_vars, poster, upload_vars, frames>>

\* a PDF is dropped into the data directory
DropPdf ==
    /\ \E pdf \in DroppedPdfs :
        /\ pdf.filename \notin pdf_names
        /\ data_dir' = Append(data_dir, pdf)
    /\ UNCHANGED <<processed_files, lock, polls, processing_log, API_URL, output_dir, call, step, cable_log, valid_count, posted,
                   api_results, result, response, parser_vars, validator_vars, poster, upload_vars, frames>>

NextWatcher ==
    \/ \E t \in Threads : \/ WatchExistingFiles(t)
                          \/ ListNewFiles(t)
                          \/ CheckNewFile(t)
                          \/ ProcessNewFile(t)
                          \/ FinishPoll(t)
    \/ DropPdf

\* the thread of main(), which calls process_existing_files once and then
\* check_for_new_files in a loop
Poller == "thread1"

NextPolls ==
    \/ WatchExistingFiles(Poller)
    \/ ListNewFiles(Poller)
    \/ CheckNewFile(Poller)
    \/ ProcessNewFile(Poller)
    \/ FinishPoll(Poller)
    \/ DropPdf

(***************************************************************************)
(* APIPoster.post_multiple_cables(cable_data_list, delay): the records are *)
(* posted in a loop, time.sleep(delay) is called between two posts, and a  *)
(* summary is printed before the results are returned.  post_cable_data    *)
(* catches every exception and returns a result with success false, so a   *)
(* post either succeeds or fails.  poster.wire holds what the call did, in *)
(* order: the index of each record posted and each sleep.                  *)
(***************************************************************************)

MaxCables == 3

\* the records of parse_datasheets({"a.pdf": "12F UTA 24F"})
PosterCables == Elements(parse_datasheets(<<[filename |-> <<"a", ".", "p", "d", "f">>, content |-> Str(<<"1", "2", "F", " ", "U", "T", "A", " ", "2", "4", "F">>)]>>, 0))

\* no delay, and DELAY_BETWEEN_REQUESTS
Delays == {0, 1}

NewPosterCall(cable_data_list, delay) ==
    [cable_data_list |-> cable_data_list, delay |-> delay, i |-> 0, results |-> <<>>, wire |-> <<>>, pc |-> "loop"]

\* one turn of the loop: post_cable_data, results.append, and whether a
\* sleep follows
post_one(running, success) ==
    [running EXCEPT !.i = @ + 1,
                  !.results = Append(@, [success |-> success,
                                         cable_description |-> running.cable_data_list[running.i + 1].cableDescription]),
                  !.wire = Append(@, [kind |-> "post", n |-> running.i + 1]),
                  !.pc = IF running.i + 1 < Len(running.cable_data_list) /\ running.delay > 0 THEN "sleep" ELSE "loop"]

\* result = self.post_cable_data(cable_data): the request is sent and
\* answered, or fails
PostCable ==
    /\ poster.pc = "loop"
    /\ poster.i < Len(poster.cable_data_list)
    /\ \E success \in BOOLEAN : poster' = post_one(poster, success)
    /\ posted' = Append(posted, poster.cable_data_list[poster.i + 1])
    /\ UNCHANGED <<API_URL, data_dir, output_dir, call, step, cable_log, valid_count, api_results, result, response,
                   parser_vars, validator_vars, frames, watcher_vars, upload_vars>>

\* time.sleep(delay)
SleepBetweenPosts ==
    /\ poster.pc = "sleep"
    /\ poster' = [poster EXCEPT !.wire = Append(@, [kind |-> "sleep", n |-> poster.delay]), !.pc = "loop"]
    /\ UNCHANGED <<pipeline_vars, parser_vars, validator_vars, frames, watcher_vars, upload_vars>>

\* the summary and return results: successful/total_cables is a
\* ZeroDivisionError for an empty list
PostSummary ==
    /\ poster.pc = "loop"
    /\ poster.i = Len(poster.cable_data_list)
    /\ poster' = [poster EXCEPT !.pc = IF Len(poster.cable_data_list) = 0 THEN "raised" ELSE "returned"]
    /\ UNCHANGED <<pipeline_vars, parser_vars, validator_vars, frames, watcher_vars, upload_vars>>

NextPoster == PostCable \/ SleepBetweenPosts \/ PostSummary

\* the lists of at most MaxCables records
CableLists == UNION {[1..n -> PosterCables] : n \in 0..MaxCables}

(***************************************************************************)
(* POST /api/upload of app.py: the file is saved under a name              *)
(* get_unique_filename chooses in the uploads folder, copied under a name  *)
(* it chooses in the scraper's data directory, processed by                *)
(* process_uploaded_pdf, moved to the processed folder, and the saved file *)
(* is removed.  Flask serves requests on threads, so the steps of two      *)
(* requests interleave.  A folder is a mapping from the names of its files *)
(* to what they hold; the data directory is data_dir.  The timestamp and   *)
(* uuid a name is made unique with are the request's own.                  *)
(***************************************************************************)

Requests == {"request1", "request2"}

\* the page text of the PDF each request uploads
UploadedContent == [request1 |-> Str(<<"2", "4", "F">>), request2 |-> Str(<<"4", "8", "F">>)]

\* f"_{timestamp}_{random_suffix}" of each request
UniqueSuffix == [request1 |-> <<"_", "1", "7", "0", "0", "0", "0", "0", "0", "0", "0", "_", "0", "a", "1", "b", "2", "c", "3", "d">>, request2 |-> <<"_", "1", "7", "0", "0", "0", "0", "0", "0", "0", "0", "_", "4", "e", "5", "f", "6", "a", "7", "b">>]

NewRequest(r, filename) ==
    [pc |-> "start", filename |-> filename, content |-> UploadedContent[r],
     unique_filename |-> <<>>, scraper_filename |-> <<>>, processed |-> None, cables_extracted |-> 0, status |-> 0]

\* get_unique_filename(original_filename, target_dir), names being what
\* target_dir holds
get_unique_filename(original_filename, names, r) ==
    IF original_filename \notin names THEN original_filename
    ELSE stem(original_filename) \o UniqueSuffix[r]
         \o SubSeq(original_filename, Len(stem(original_filename)) + 1, Len(original_filename))

\* a folder without the file
unlink(folder, name) == [n \in DOMAIN folder \ {name} |-> folder[n]]

\* the data directory without the PDF
unlink_pdf(pdfs, name) == SelectSeq(pdfs, LAMBDA pdf : pdf.filename # name)

\* shutil.copy2 into the data directory
copy_pdf(pdfs, name, content) == Append(unlink_pdf(pdfs, name), [filename |-> name, content |-> content])

\* unique_filename = get_unique_filename(file.filename, UPLOAD_FOLDER)
NameUpload(r) ==
    /\ requests[r].pc = "start"
    /\ requests' = [requests EXCEPT ![r].unique_filename = get_unique_filename(requests[r].filename, DOMAIN UPLOAD_FOLDER, r),
                                    ![r].pc = "save"]
    /\ UNCHANGED <<UPLOAD_FOLDER, PROCESSED_FOLDER, poster, pipeline_vars, parser_vars, validator_vars, frames, watcher_vars>>

\* file.save(str(temp_path))
SaveUpload(r) ==
    /\ requests[r].pc = "save"
    /\ UPLOAD_FOLDER' = write_json(UPLOAD_FOLDER, requests[r].unique_filename, requests[r].content)
    /\ requests' = [requests EXCEPT ![r].pc = "name"]
    /\ UNCHANGED <<PROCESSED_FOLDER, poster, pipeline_vars, parser_vars, validator_vars, frames, watcher_vars>>

\* scraper_filename = get_unique_filename(file.filename, scraper_data_dir)
NameStaged(r) ==
    /\ requests[r].pc = "name"
    /\ requests' = [requests EXCEPT ![r].scraper_filename = get_unique_filename(requests[r].filename, pdf_names, r),
                                    ![r].pc = "copy"]
    /\ UNCHANGED <<UPLOAD_FOLDER, PROCESSED_FOLDER, poster, pipeline_vars, parser_vars, validator_vars, frames, watcher_vars>>

\* safe_copy_file(temp_path, target_path): a file at the target is removed,
\* then the saved file is copied; when the saved file is gone the copy
\* fails, the request removes what it can and answers 500
CopyStaged(r) ==
    /\ requests[r].pc = "copy"
    /\ IF requests[r].unique_filename \in DOMAIN UPLOAD_FOLDER
       THEN /\ data_dir' = copy_pdf(data_dir, requests[r].scraper_filename, UPLOAD_FOLDER[requests[r].unique_filename])
            /\ requests' = [requests EXCEPT ![r].pc = "process"]
       ELSE /\ data_dir' = unlink_pdf(data_dir, requests[r].scraper_filename)
            /\ requests' = [requests EXCEPT ![r].pc = "done", ![r].status = 500]
    /\ UNCHANGED <<UPLOAD_FOLDER, PROCESSED_FOLDER, poster, API_URL, output_dir, call, step, cable_log, valid_count, posted,
                   api_results, result, response, parser_vars, validator_vars, frames, watcher_vars>>

\* what process_uploaded_pdf does once _process_single_pdf has returned:
\* the JSON files named after the PDF are counted, loaded and posted
post_uploaded(st, pdf_filename, listing, url) ==
    [st EXCEPT !.posted = IF url # "" /\ listing # <<>>
                          THEN post_multiple_cables(st.posted, load_json(st.output_dir, listing))
                          ELSE st.posted]

\* result = process_uploaded_pdf(scraper_filename), and on a failure the
\* removal of the saved and the copied file
ProcessStaged(r) ==
    /\ requests[r].pc = "process"
    /\ IF ~pdf_exists(requests[r].scraper_filename)
       THEN /\ requests' = [requests EXCEPT ![r].pc = "done", ![r].status = 500]
            /\ UPLOAD_FOLDER' = unlink(UPLOAD_FOLDER, requests[r].unique_filename)
            /\ UNCHANGED <<data_dir, output_dir, posted, cable_log, valid_count>>
       ELSE \E st \in {process_single_pdf(ProcessState, pdf_named(requests[r].scraper_filename), hashseed, API_URL)} :
                IF st.raised
                THEN /\ Becomes(st)
                     /\ requests' = [requests EXCEPT ![r].pc = "done", ![r].status = 500,
                                                     ![r].processed = pdf_named(requests[r].scraper_filename).content]
                     /\ UPLOAD_FOLDER' = unlink(UPLOAD_FOLDER, requests[r].unique_filename)
                     /\ data_dir' = unlink_pdf(data_dir, requests[r].scraper_filename)
                ELSE \E listing \in Listings(glob_json(st.output_dir, stem(requests[r].scraper_filename))) :
                        /\ Becomes(post_uploaded(st, requests[r].scraper_filename, listing, API_URL))
                        /\ requests' = [requests EXCEPT ![r].pc = "finish",
                                                        ![r].processed = pdf_named(requests[r].scraper_filename).content,
                                                        ![r].cables_extracted = Len(listing)]
                        /\ UNCHANGED <<UPLOAD_FOLDER, data_dir>>
    /\ UNCHANGED <<PROCESSED_FOLDER, poster, API_URL, call, step, api_results, result, response,
                   parser_vars, validator_vars, frames, watcher_vars>>

\* the copied file is moved to the processed folder (when it is gone the
\* move and the copy tried after it fail, and a warning is printed), the
\* saved file is removed, and the request answers 200
FinishUpload(r) ==
    /\ requests[r].pc = "finish"
    /\ IF pdf_exists(requests[r].scraper_filename)
       THEN /\ PROCESSED_FOLDER' = write_json(PROCESSED_FOLDER,
                                              get_unique_filename(requests[r].filename, DOMAIN PROCESSED_FOLDER, r),
                                              pdf_named(requests[r].scraper_filename).content)
            /\ data_dir' = unlink_pdf(data_dir, requests[r].scraper_filename)
       ELSE UNCHANGED <<PROCESSED_FOLDER, data_dir>>
    /\ UPLOAD_FOLDER' = unlink(UPLOAD_FOLDER, requests[r].unique_filename)
    /\ requests' = [requests EXCEPT ![r].pc = "done", ![r].status = 200]
    /\ UNCHANGED <<poster, API_URL, output_dir, call, step, cable_log, valid_count, posted,
                   api_results, result, response, parser_vars, validator_vars, frames, watcher_vars>>

NextUploads ==
    \E r \in Requests : \/ NameUpload(r)
                        \/ SaveUpload(r)
                        \/ NameStaged(r)
                        \/ CopyStaged(r)
                        \/ ProcessStaged(r)
                        \/ FinishUpload(r)

\* the names the two requests carry: the same name, or two names
UploadedNames == {[request1 |-> <<"a", ".", "p", "d", "f">>, request2 |-> <<"a", ".", "p", "d", "f">>], [request1 |-> <<"a", ".", "p", "d", "f">>, request2 |-> <<"b", ".", "p", "d", "f">>]}

\* the uploads folder before the requests: empty, or with an a.pdf left there
UploadFolders == {EmptyDir, [n \in {<<"a", ".", "p", "d", "f">>} |-> Str(<<"9", "6", "F">>)]}

(***************************************************************************)
(* Specifications                                                          *)
(***************************************************************************)

ParserIdle ==
    /\ files = <<>>
    /\ pc = "idle"
    /\ i = 0
    /\ all_cables = <<>>
    /\ printed = <<>>

ValidatorIdle ==
    /\ cable_data = [k \in {} |-> k]
    /\ validation = [by |-> "nobody", out |-> Returns(FALSE, <<>>)]

\* no call in progress
CallIdle ==
    /\ cable_log = <<>>
    /\ valid_count = 0
    /\ posted = <<>>
    /\ api_results = [kind |-> "unset", results |-> <<>>]
    /\ result = NoResult
    /\ response = 0

PipelineIdle ==
    /\ API_URL = ""
    /\ data_dir = <<>>
    /\ output_dir = EmptyDir
    /\ call = [name |-> "none", pdf_filename |-> <<>>]
    /\ step = "idle"
    /\ CallIdle

CallersIdle == frames = [c \in Callers |-> NewFrame(<<>>)]

WatcherIdle ==
    /\ processed_files = {}
    /\ lock = "free"
    /\ polls = [t \in Threads |-> NewPoll]
    /\ processing_log = <<>>

\* no call of post_multiple_cables in progress
PosterIdle == poster = [NewPosterCall(<<>>, 0) EXCEPT !.pc = "idle"]

UploadsIdle ==
    /\ requests = [r \in Requests |-> NewRequest(r, <<>>)]
    /\ UPLOAD_FOLDER = EmptyDir
    /\ PROCESSED_FOLDER = EmptyDir

Start ==
    /\ hashseed \in HashSeeds
    /\ pc = "loop"
    /\ i = 0
    /\ all_cables = <<>>
    /\ printed = <<>>
    /\ ValidatorIdle
    /\ PipelineIdle
    /\ CallersIdle
    /\ WatcherIdle
    /\ PosterIdle
    /\ UploadsIdle

\* parse_datasheets(files) on a mapping of several documents
Init == files \in Mappings(FileNames, BatchContents, MaxDocs) /\ Start

\* parse_datasheets(files) on a mapping of one document
InitDoc == files \in Mappings({<<"a", ".", "p", "d", "f">>}, DocContents, 1) /\ Start

\* parse_datasheets(files) on one document that holds attribute tokens
InitAttr == files \in Mappings({<<"a", ".", "p", "d", "f">>}, AttributeContents, 1) /\ Start

\* validate_json_output(cable_data) on a record
InitValidator ==
    /\ hashseed \in HashSeeds
    /\ cable_data \in ValidatorInputs
    /\ validation = [by |-> "nobody", out |-> Returns(FALSE, <<>>)]
    /\ ParserIdle
    /\ PipelineIdle
    /\ CallersIdle
    /\ WatcherIdle
    /\ PosterIdle
    /\ UploadsIdle

\* a call of one of the entry points, on a data directory of some PDFs
InitPipeline ==
    /\ hashseed \in HashSeeds
    /\ API_URL \in API_URLs
    /\ data_dir \in Mappings(PdfNames, PageContents, MaxDocs)
    /\ output_dir \in EarlierOutputs
    /\ call \in Calls
    /\ step = "start"
    /\ CallIdle
    /\ ParserIdle
    /\ ValidatorIdle
    /\ CallersIdle
    /\ WatcherIdle
    /\ PosterIdle
    /\ UploadsIdle

\* two callers, each with a mapping of its own
InitCallers ==
    /\ hashseed \in HashSeeds
    /\ frames \in [Callers -> {NewFrame(m) : m \in Mappings(CallerNames, CallerContents, MaxDocs)}]
    /\ ParserIdle
    /\ ValidatorIdle
    /\ PipelineIdle
    /\ WatcherIdle
    /\ PosterIdle
    /\ UploadsIdle

\* a PDFProcessor just constructed, on a data directory of at most one PDF
InitWatcher ==
    /\ hashseed = 0
    /\ API_URL \in API_URLs \ {""}
    /\ data_dir \in {<<>>} \cup {<<pdf>> : pdf \in DroppedPdfs}
    /\ output_dir = EmptyDir
    /\ call = [name |-> "main", pdf_filename |-> <<>>]
    /\ step = "watching"
    /\ CallIdle
    /\ WatcherIdle
    /\ PosterIdle
    /\ UploadsIdle
    /\ ParserIdle
    /\ ValidatorIdle
    /\ CallersIdle

\* post_multiple_cables called on a list of records
InitPoster ==
    /\ hashseed = 0
    /\ poster \in {NewPosterCall(l, d) : l \in CableLists, d \in Delays}
    /\ ParserIdle
    /\ ValidatorIdle
    /\ PipelineIdle
    /\ CallersIdle
    /\ WatcherIdle
    /\ UploadsIdle

\* two /api/upload requests received
InitUploads ==
    /\ hashseed = 0
    /\ \E names \in UploadedNames : requests = [r \in Requests |-> NewRequest(r, names[r])]
    /\ UPLOAD_FOLDER \in UploadFolders
    /\ PROCESSED_FOLDER = EmptyDir
    /\ API_URL \in API_URLs \ {""}
    /\ data_dir = <<>>
    /\ output_dir = EmptyDir
    /\ call = [name |-> "upload_file", pdf_filename |-> <<>>]
    /\ step = "serving"
    /\ CallIdle
    /\ ParserIdle
    /\ ValidatorIdle
    /\ CallersIdle
    /\ WatcherIdle
    /\ PosterIdle

Spec == Init /\ [][Next]_vars

SpecDoc == InitDoc /\ [][Next]_vars

SpecAttr == InitAttr /\ [][Next]_vars

SpecValidator == InitValidator /\ [][NextValidator]_vars

SpecPipeline == InitPipeline /\ [][NextPipeline]_vars

SpecCallers == InitCallers /\ [][NextCallers]_vars

SpecWatcher == InitWatcher /\ [][NextWatcher]_vars

SpecPolls == InitWatcher /\ [][NextPolls]_vars

SpecPoster == InitPoster /\ [][NextPoster]_vars

SpecUploads == InitUploads /\ [][NextUploads]_vars


(***************************************************************************)
(* Properties                                                              *)
(***************************************************************************)

\* the documents the loop has dealt with so far
Handled == 1..i

Raised(k) == parse_single_datasheet_raises(files[k].content)

IsText(k) == files[k].content.kind = "str"

\* the records of the result that carry a document's name
RecordsOf(filename) == SelectSeq(all_cables, LAMBDA r : r.datasheetURL = filename)

WasPrinted(filename) == \E k \in 1..Len(printed) : printed[k] = filename

\* what parse_datasheets returns for the mapping of this one document
Alone(doc) ==
    IF parse_single_datasheet_raises(doc.content) THEN <<>>
    ELSE append_cables(<<>>, parse_single_datasheet(doc.filename, doc.content.text, hashseed))

\* the text of the document a record names
TextOf(r) == files[CHOOSE k \in 1..Len(files) : files[k].filename = r.datasheetURL].content.text

\* the number a record's fiberCount stands for
CountOf(r) == ToInt(SubSeq(r.fiberCount, 1, Len(r.fiberCount) - 1))

HasDigitsF(text) == \E k \in 1..(Len(text) - 1) : text[k] \in Digits /\ text[k + 1] = "F"

\* C1: parse_datasheets raises nothing and handles every document; a
\* document whose extraction raises contributes no record, and every other
\* document contributes exactly the records it gives when parsed alone.
C1_FailuresIsolated ==
    /\ pc \in {"loop", "done"}
    /\ pc = "done" => i = Len(files)
    /\ \A k \in Handled :
        /\ Raised(k) => RecordsOf(files[k].filename) = <<>>
        /\ ~Raised(k) => RecordsOf(files[k].filename) = Alone(files[k])

\* a document that raised, and a later one whose records are in the result
C1_Witness ==
    /\ pc = "done"
    /\ \E a, b \in Handled :
        /\ a < b
        /\ Raised(a)
        /\ RecordsOf(files[b].filename) # <<>>

\* C2: a text with no digit directly followed by "F" gives no record, and
\* no error is reported for it.
C2_NoCountNoRecords ==
    \A k \in Handled :
        (IsText(k) /\ ~HasDigitsF(files[k].content.text)) =>
            /\ RecordsOf(files[k].filename) = <<>>
            /\ ~WasPrinted(files[k].filename)
            /\ pc \in {"loop", "done"}

\* a text that holds digits and an "F", but never a digit right before an "F"
C2_Witness ==
    /\ pc = "done"
    /\ i = 1
    /\ IsText(1)
    /\ ~HasDigitsF(files[1].content.text)
    /\ \E k \in 1..Len(files[1].content.text) : files[1].content.text[k] \in Digits
    /\ \E k \in 1..Len(files[1].content.text) : files[1].content.text[k] = "F"
    /\ all_cables = <<>>

\* C3 (as claimed): within a document, each record's fiber count is
\* numerically greater than the one before it, so no two are numerically equal.
C3_StrictlyAscending ==
    \A a, b \in 1..Len(all_cables) :
        (a < b /\ all_cables[a].datasheetURL = all_cables[b].datasheetURL) =>
            CountOf(all_cables[a]) < CountOf(all_cables[b])

\* tokens 48F, 24F, 96F, out of order: records 24F, 48F, 96F
C3_Witness ==
    /\ pc = "done"
    /\ i = 1
    /\ IsText(1)
    /\ files[1].content.text = <<"4", "8", "F", "2", "4", "F", "9", "6", "F">>
    /\ [j \in 1..Len(all_cables) |-> all_cables[j].fiberCount] = <<<<"2", "4", "F">>, <<"4", "8", "F">>, <<"9", "6", "F">>>>

RECURSIVE ConcatAlone(_)
ConcatAlone(k) == IF k = 0 THEN <<>> ELSE ConcatAlone(k - 1) \o Alone(files[k])

\* C4: the result is the concatenation, in mapping order, of what each
\* document gives on its own, and within a document the fiber counts never
\* decrease.
C4_ConcatenationInMappingOrder ==
    /\ all_cables = ConcatAlone(i)
    /\ \A a, b \in 1..Len(all_cables) :
        (a < b /\ all_cables[a].datasheetURL = all_cables[b].datasheetURL) =>
            CountOf(all_cables[a]) <= CountOf(all_cables[b])

\* two documents with several records each, their names not in sorted order
C4_Witness ==
    /\ pc = "done"
    /\ Len(files) >= 2
    /\ files[1].filename = <<"c", ".", "p", "d", "f">>
    /\ files[2].filename = <<"a", ".", "p", "d", "f">>
    /\ Len(RecordsOf(<<"c", ".", "p", "d", "f">>)) >= 2
    /\ Len(RecordsOf(<<"a", ".", "p", "d", "f">>)) >= 2
    /\ RecordsOf(<<"c", ".", "p", "d", "f">>)[1].fiberCount # RecordsOf(<<"a", ".", "p", "d", "f">>)[1].fiberCount

\* C5: a record of count 144F or 288F has fiberType G.657A1; any other
\* record has OM1 when the text holds "OM" and not "G.65", else G.652D.
C5_FiberTypeRule ==
    \A j \in 1..Len(all_cables) :
        LET r == all_cables[j]
        IN  IF r.fiberCount \in {<<"1", "4", "4", "F">>, <<"2", "8", "8", "F">>}
            THEN r.fiberType = <<"G", ".", "6", "5", "7", "A", "1">>
            ELSE r.fiberType =
                    (IF Contains(TextOf(r), <<"O", "M">>) /\ ~Contains(TextOf(r), <<"G", ".", "6", "5">>)
                     THEN <<"O", "M", "1">> ELSE <<"G", ".", "6", "5", "2", "D">>)

\* tokens 24F and 144F, neither "G.65" nor "OM": G.652D and G.657A1
C5_Witness ==
    /\ pc = "done"
    /\ Len(all_cables) = 2
    /\ ~Contains(TextOf(all_cables[1]), <<"O", "M">>)
    /\ ~Contains(TextOf(all_cables[1]), <<"G", ".", "6", "5">>)
    /\ all_cables[1].fiberCount = <<"2", "4", "F">>
    /\ all_cables[1].fiberType = <<"G", ".", "6", "5", "2", "D">>
    /\ all_cables[2].fiberCount = <<"1", "4", "4", "F">>
    /\ all_cables[2].fiberType = <<"G", ".", "6", "5", "7", "A", "1">>

\* C6: cableDescription is fiberCount, a space and the description of the
\* document's text; fiberCount is a digit string of the text followed by "F".
C6_DescriptionRoundTrip ==
    \A j \in 1..Len(all_cables) :
        LET r == all_cables[j]
            n == Len(r.fiberCount)
        IN  /\ r.cableDescription = r.fiberCount \o <<" ">> \o get_cable_description(TextOf(r))
            /\ n >= 2
            /\ r.fiberCount[n] = "F"
            /\ \A k \in 1..(n - 1) : r.fiberCount[k] \in Digits
            /\ Contains(TextOf(r), r.fiberCount)

\* a record of a document whose description is not the default one
C6_Witness ==
    /\ pc = "done"
    /\ \E j \in 1..Len(all_cables) :
        /\ get_cable_description(TextOf(all_cables[j])) = Armoured
        /\ all_cables[j].cableDescription = <<"1", "2", "F", " ", "A", "r", "m", "o", "u", "r", "e", "d", " ", "l", "o", "o", "s", "e", "-", "t", "u", "b", "e", " ", "c", "a", "b", "l", "e">>

DocumentFields ==
    {"typeofCable", "tube", "diameter", "tensile", "crush", "nescCondition", "span",
     "tubeColorCoding", "blowingLength", "datasheetURL", "cableID", "isActive"}

\* C7: the records of one document agree on every field but fiberCount,
\* cableDescription and fiberType.
C7_DocumentFieldsShared ==
    \A a, b \in 1..Len(all_cables) :
        all_cables[a].datasheetURL = all_cables[b].datasheetURL =>
            \A f \in DocumentFields : all_cables[a][f] = all_cables[b][f]

\* two records of one document that holds a tensile and a crush value
C7_Witness ==
    /\ pc = "done"
    /\ Len(all_cables) >= 2
    /\ all_cables[1].fiberCount # all_cables[2].fiberCount
    /\ all_cables[1].tensile # NA
    /\ all_cables[1].crush # NA

RecordKeys ==
    {"cableID", "cableDescription", "fiberCount", "typeofCable", "span", "tube",
     "tubeColorCoding", "fiberType", "diameter", "tensile", "nescCondition", "crush",
     "blowingLength", "datasheetURL", "isActive"}

\* the number of records a document gives: its distinct count tokens
Variants(k) ==
    IF Raised(k) THEN 0
    ELSE Cardinality({text_fcs(files[k].content.text)[n] : n \in 1..Len(text_fcs(files[k].content.text))})

RECURSIVE RecordsBefore(_)
RecordsBefore(k) == IF k <= 1 THEN 0 ELSE RecordsBefore(k - 1) + Variants(k - 1)

\* the document the j-th record of the result was derived from
Origin(j) == CHOOSE k \in Handled : RecordsBefore(k) < j /\ j <= RecordsBefore(k) + Variants(k)

\* C8: every record has exactly the 15 keys, cableID 0, isActive "Y", span,
\* tubeColorCoding and blowingLength "N/A", and datasheetURL the key of the
\* document it was derived from.
C8_RecordShape ==
    \A j \in 1..Len(all_cables) :
        LET r == all_cables[j]
        IN  /\ DOMAIN r = RecordKeys
            /\ r.cableID = 0
            /\ r.isActive = <<"Y">>
            /\ r.span = NA
            /\ r.tubeColorCoding = NA
            /\ r.blowingLength = NA
            /\ \E k \in Handled : RecordsBefore(k) < j /\ j <= RecordsBefore(k) + Variants(k)
            /\ r.datasheetURL = files[Origin(j)].filename

\* records of two documents in one result
C8_Witness ==
    /\ pc = "done"
    /\ Len(all_cables) >= 3
    /\ all_cables[1].datasheetURL # all_cables[Len(all_cables)].datasheetURL

Descriptions == {IndoorLSZH, Outdoor, Armoured, MicroCable, Unarmoured, OpticalFiberCable}

\* C9 (as claimed): a document whose content is a str is parsed without an
\* exception, and each extractor's field holds a value: one of its fixed
\* values, or a non-empty string.
C9_NeverRaisesOnText ==
    /\ pc \in {"loop", "done"}
    /\ \A k \in Handled : IsText(k) => ~WasPrinted(files[k].filename)
    /\ \A j \in 1..Len(all_cables) :
        LET r == all_cables[j]
        IN  /\ \E d \in Descriptions : r.cableDescription = r.fiberCount \o <<" ">> \o d
            /\ r.typeofCable \in {<<"U", "T">>, <<"M", "T">>, NA}
            /\ r.tube \in {<<"U", "n", "i", "t", "u", "b", "e">>, <<"M", "u", "l", "t", "i", "t", "u", "b", "e">>, <<"M", "i", "c", "r", "o">>, <<"S", "t", "a", "n", "d", "a", "r", "d">>}
            /\ r.fiberType \in {<<"G", ".", "6", "5", "2", "D">>, <<"G", ".", "6", "5", "7", "A", "1">>, <<"O", "M", "1">>}
            /\ r.diameter # <<>>
            /\ r.tensile # <<>>
            /\ r.crush # <<>>
            /\ r.nescCondition # <<>>

\* a text with letters no rule knows and an "F" that no digit precedes,
\* parsed into records that hold fallback values
C9_Witness ==
    /\ pc = "done"
    /\ i = 1
    /\ IsText(1)
    /\ printed = <<>>
    /\ Contains(files[1].content.text, <<"x", "F">>)
    /\ Len(all_cables) >= 1
    /\ \A j \in 1..Len(all_cables) :
        /\ all_cables[j].tube = <<"S", "t", "a", "n", "d", "a", "r", "d">>
        /\ all_cables[j].typeofCable = NA
        /\ all_cables[j].tensile = NA
        /\ all_cables[j].nescCondition = NA

\* no rule of any extractor matches the text
NoRuleMatches(text) ==
    /\ \A k \in 1..Len(detailed_patterns) : ~Contains(Lower(text), detailed_patterns_lower[k])
    /\ \A code \in {<<"M", "T", "U", "A">>, <<"U", "T", "A">>, <<"M", "I", "C", "R", "O">>, <<"M", "T", " ", "U", "A">>} : ~Contains(text, code)
    /\ \A word \in {<<"U", "n", "i", "t", "u", "b", "e">>, <<"M", "u", "l", "t", "i", "t", "u", "b", "e">>, <<"M", "i", "c", "r", "o">>} : ~Contains(text, word)
    /\ \A k \in 1..Len(TensilePatterns) : ~re_search(TensilePatterns[k], CollapseWhitespace(text)).ok
    /\ \A k \in 1..Len(CrushPatterns) : ~re_search(CrushPatterns[k], CollapseWhitespace(text)).ok
    /\ \A k \in 1..Len(DiameterPatterns) : ~re_search(DiameterPatterns[k], CollapseWhitespace(text)).ok
    /\ ~re_search(TempPattern, text).ok
    /\ ~Contains(text, <<"O", "M">>)

\* the digits that end right before position p
RECURSIVE DigitsBefore(_, _)
DigitsBefore(text, p) ==
    IF p > 1 /\ text[p - 1] \in Digits THEN DigitsBefore(text, p - 1) \o <<text[p - 1]>> ELSE <<>>

\* the positions of an "F" that follows a digit
CountTokens(text) == {p \in 2..Len(text) : text[p] = "F" /\ text[p - 1] \in Digits}

TheCount(text) == DigitsBefore(text, CHOOSE p \in CountTokens(text) : TRUE)

\* the text holds exactly one count token nF, and n is neither 144 nor 288
OneCountToken(text) ==
    /\ Cardinality(CountTokens(text)) = 1
    /\ TheCount(text) \notin {<<"1", "4", "4">>, <<"2", "8", "8">>}

\* C10 (as claimed): a text that no extractor rule matches and that holds
\* one count token nF, n not 144 or 288, gives exactly one record, every
\* field at its fallback.
C10_FallbackRecord ==
    \A k \in Handled :
        (IsText(k) /\ NoRuleMatches(files[k].content.text) /\ OneCountToken(files[k].content.text)) =>
            LET rs == RecordsOf(files[k].filename)
                n == TheCount(files[k].content.text)
            IN  /\ Len(rs) = 1
                /\ rs[1].typeofCable = NA
                /\ rs[1].tube = <<"S", "t", "a", "n", "d", "a", "r", "d">>
                /\ rs[1].diameter = NA
                /\ rs[1].tensile = NA
                /\ rs[1].crush = NA
                /\ rs[1].nescCondition = NA
                /\ rs[1].fiberType = <<"G", ".", "6", "5", "2", "D">>
                /\ rs[1].fiberCount = n \o <<"F">>
                /\ rs[1].cableDescription = n \o <<"F", " ", "O", "p", "t", "i", "c", "a", "l", " ", "F", "i", "b", "e", "r", " ", "C", "a", "b", "l", "e">>

\* the token 12F inside text that nothing recognizes
C10_Witness ==
    /\ pc = "done"
    /\ i = 1
    /\ IsText(1)
    /\ NoRuleMatches(files[1].content.text)
    /\ OneCountToken(files[1].content.text)
    /\ Len(files[1].content.text) > 3
    /\ Len(all_cables) = 1
    /\ all_cables[1].cableDescription = <<"1", "2", "F", " ", "O", "p", "t", "i", "c", "a", "l", " ", "F", "i", "b", "e", "r", " ", "C", "a", "b", "l", "e">>

(***************************************************************************)
(* Properties of the validator                                             *)
(***************************************************************************)

Validated == validation.by # "nobody"

HasRequiredKeys == RequiredKeys \subseteq DOMAIN cable_data

ReturnedTrue == ~validation.out.raised /\ validation.out.value

ReturnedFalse == ~validation.out.raised /\ ~validation.out.value

\* a str of one or more digits followed by one "F"
DigitsThenF(value) ==
    /\ value.kind = "str"
    /\ Len(value.text) >= 2
    /\ value.text[Len(value.text)] = "F"
    /\ \A k \in 1..(Len(value.text) - 1) : value.text[k] \in Digits

\* the string without one trailing "F"
StripOneF(s) == IF s # <<>> /\ s[Len(s)] = "F" THEN SubSeq(s, 1, Len(s) - 1) ELSE s

\* C11 (as claimed): either validator returns true for a record that has the
\* six required keys and a fiberCount of digits followed by one "F",
\* whatever its typeofCable and fiberType are.
C11_AcceptsDigitsF ==
    (Validated /\ HasRequiredKeys /\ DigitsThenF(cable_data["fiberCount"])) => ReturnedTrue

\* the validator of combined_scraper.py accepts a record of the parser whose
\* fiberType (G.657A1) it only warns about
C11_Witness ==
    /\ validation.by = "combined_scraper"
    /\ cable_data \in {as_dict(r) : r \in ParsedRecords}
    /\ cable_data["fiberCount"] = Str(<<"1", "4", "4", "F">>)
    /\ cable_data["fiberType"] = Str(<<"G", ".", "6", "5", "7", "A", "1">>)
    /\ ReturnedTrue
    /\ validation.out.warnings = <<"Invalid fiber type">>

\* C12 (as claimed): the validator of combined_scraper.py returns false for
\* a record that lacks one of the six keys, and for a record whose fiberCount,
\* one trailing "F" removed, is not a non-empty string of digits.
C12_RejectsBadCount ==
    validation.by = "combined_scraper" =>
        /\ ~HasRequiredKeys => ReturnedFalse
        /\ (HasRequiredKeys /\ cable_data["fiberCount"].kind = "str"
                /\ ~IsDigit(StripOneF(cable_data["fiberCount"].text))) => ReturnedFalse

\* "12X" is turned down with a warning
C12_Witness ==
    /\ validation.by = "combined_scraper"
    /\ HasRequiredKeys
    /\ cable_data["fiberCount"] = Str(<<"1", "2", "X">>)
    /\ ReturnedFalse
    /\ validation.out.warnings = <<"Invalid fiber count">>

\* C13 (as claimed): neither validator raises, whatever the types of the
\* record's values are.
C13_ValidatorNeverRaises == Validated => ~validation.out.raised

\* fiberCount None and typeofCable None: true is returned, with a warning
C13_Witness ==
    /\ Validated
    /\ HasRequiredKeys
    /\ cable_data["fiberCount"] = None
    /\ cable_data["typeofCable"] = None
    /\ ReturnedTrue
    /\ validation.out.warnings # <<>>

(***************************************************************************)
(* Properties of the pipeline                                              *)
(***************************************************************************)

WasPosted(cable) == \E k \in 1..Len(posted) : posted[k] = cable

\* the file a call writes for a cable
FileOf(cable) == IF call.name = "main" THEN main_output_filename(cable) ELSE output_filename(cable)

WasWritten(cable) == FileOf(cable) \in DOMAIN output_dir /\ output_dir[FileOf(cable)] = cable

RECURSIVE CablesOfPdfs(_)
\* the records parse_datasheets returns for each of the PDFs in turn
CablesOfPdfs(pdfs) ==
    IF pdfs = <<>> THEN <<>>
    ELSE CablesOfPdfs(SubSeq(pdfs, 1, Len(pdfs) - 1))
         \o (IF pdfs[Len(pdfs)].content.kind = "str" THEN pdf_cables(pdfs[Len(pdfs)], hashseed) ELSE <<>>)

\* the records parse_datasheets has returned to the call once its first step
\* is done
ReturnedCables ==
    IF call.name = "main" THEN parse_datasheets(file_contents(data_dir), hashseed)
    ELSE IF call.name = "run_all_functionalities" THEN CablesOfPdfs(reached(data_dir))
    ELSE IF pdf_exists(call.pdf_filename) THEN CablesOfPdfs(<<pdf_named(call.pdf_filename)>>)
    ELSE <<>>

\* the entries of the log that belong to the PDF processed last
LastEntries ==
    IF call.name = "main" \/ cable_log = <<>> THEN cable_log
    ELSE SelectSeq(cable_log, LAMBDA e : e.cable.datasheetURL = cable_log[Len(cable_log)].cable.datasheetURL)

\* C14: every record parse_datasheets returned is written to its JSON file
\* and, where the call posts, posted, whether the validator accepted it or
\* not; the validator's verdicts only make up valid_count.
C14_ValidationAdvisory ==
    step # "start" =>
        /\ [k \in 1..Len(cable_log) |-> cable_log[k].cable] = ReturnedCables
        /\ \A k \in 1..Len(cable_log) :
            /\ WasWritten(cable_log[k].cable)
            /\ (call.name # "main" /\ API_URL # "") => WasPosted(cable_log[k].cable)
        /\ valid_count = count_valid(LastEntries)

\* main() has written the files of records its validator turned down
C14_Witness ==
    /\ call.name = "main"
    /\ step = "returned"
    /\ Len(cable_log) >= 2
    /\ valid_count = 0
    /\ \A k \in 1..Len(cable_log) : ~cable_log[k].valid /\ WasWritten(cable_log[k].cable)

\* C18 (as claimed): during a call of process_uploaded_pdf,
\* run_single_pdf_processing or run_all_functionalities no record is posted
\* twice.
C18_PostedOnce ==
    call.name \in {"process_uploaded_pdf", "run_single_pdf_processing", "run_all_functionalities"} =>
        \A a, b \in 1..Len(posted) : a # b => posted[a] # posted[b]

\* after _process_single_pdf and before the files are posted from disk,
\* each record of the PDF has been posted once
C18_Witness ==
    /\ call.name = "process_uploaded_pdf"
    /\ step = "post"
    /\ API_URL # ""
    /\ Len(posted) >= 2
    /\ [k \in 1..Len(cable_log) |-> cable_log[k].cable] = posted
    /\ \A a, b \in 1..Len(posted) : a # b => posted[a] # posted[b]

\* every PDF of the data directory is processed without an exception
AllPdfsProcess == \A k \in 1..Len(data_dir) : data_dir[k].content.kind = "str"

\* C20 (as claimed): when every PDF is processed without error,
\* run_all_functionalities returns the summary with success true, and
\* /api/process-all answers 200.
C20_RunAllReturnsSuccess ==
    (call.name = "run_all_functionalities" /\ step \in {"returned", "raised"} /\ AllPdfsProcess) =>
        /\ step = "returned"
        /\ result.success
        /\ response \in {0, 200}

\* without an API URL the call returns the summary and the endpoint
\* answers 200
C20_Witness ==
    /\ call.name = "run_all_functionalities"
    /\ AllPdfsProcess
    /\ Len(data_dir) >= 1
    /\ cable_log # <<>>
    /\ API_URL = ""
    /\ step = "returned"
    /\ result.success
    /\ response = 200

(***************************************************************************)
(* Properties of concurrent calls                                          *)
(***************************************************************************)

\* C15: whatever the interleaving, each caller's list is the one
\* parse_datasheets gives for the documents it has handled so far when it
\* runs alone, and two finished calls on the same mapping have the same
\* result.
C15_CallsIndependent ==
    /\ \A c \in Callers :
        frames[c].all_cables = parse_datasheets(SubSeq(frames[c].files, 1, frames[c].i), hashseed)
    /\ \A c, d \in Callers :
        (frames[c].pc = "done" /\ frames[d].pc = "done" /\ frames[c].files = frames[d].files) =>
            /\ frames[c].all_cables = frames[d].all_cables
            /\ frames[c].printed = frames[d].printed

\* both callers in the middle of their calls, each with records of its
\* first document, the documents not the same
C15_Witness ==
    /\ \A c \in Callers :
        /\ frames[c].pc = "loop"
        /\ Len(frames[c].files) = 2
        /\ frames[c].i = 1
        /\ frames[c].all_cables # <<>>
    /\ frames["caller1"].all_cables # frames["caller2"].all_cables

(***************************************************************************)
(* Properties of the extractors' reading of the text                       *)
(***************************************************************************)

\* the count a record's fiberCount was built from
FcOf(r) == SubSeq(r.fiberCount, 1, Len(r.fiberCount) - 1)

\* C16 (as claimed): every field of a record is the extractor's value for
\* the text with each whitespace run replaced by one space.
C16_FromNormalizedText ==
    \A j \in 1..Len(all_cables) :
        LET r == all_cables[j]
            normalized == CollapseWhitespace(TextOf(r))
        IN  /\ r.cableDescription = r.fiberCount \o <<" ">> \o get_cable_description(normalized)
            /\ r.typeofCable = get_cable_type(normalized)
            /\ r.tube = get_tube_type(normalized)
            /\ r.fiberType = get_detailed_fiber_type(normalized, FcOf(r))
            /\ r.diameter = extract_parameter_value(normalized, <<"c", "a", "b", "l", "e", " ", "d", "i", "a", "m", "e", "t", "e", "r">>)
            /\ r.tensile = extract_parameter_value(normalized, <<"t", "e", "n", "s", "i", "l", "e", " ", "s", "t", "r", "e", "n", "g", "t", "h">>)
            /\ r.crush = extract_parameter_value(normalized, <<"c", "r", "u", "s", "h", " ", "r", "e", "s", "i", "s", "t", "a", "n", "c", "e">>)
            /\ r.nescCondition = get_nesc_condition(normalized)

\* a tensile value split by a line break is found as in the normalized text
C16_Witness ==
    /\ pc = "done"
    /\ Len(all_cables) = 1
    /\ Contains(TextOf(all_cables[1]), <<"2", "0", "\n", " ", "N">>)
    /\ all_cables[1].tensile = <<"2", "0", " ", "N">>
    /\ all_cables[1].tensile = extract_parameter_value(CollapseWhitespace(TextOf(all_cables[1])), <<"t", "e", "n", "s", "i", "l", "e", " ", "s", "t", "r", "e", "n", "g", "t", "h">>)
    /\ all_cables[1].typeofCable = get_cable_type(CollapseWhitespace(TextOf(all_cables[1])))

\* str.upper()
Upper(s) == [k \in 1..Len(s) |-> UpperChar(s[k])]

\* what nescCondition is: the range, the list of temperatures, or N/A
NescForm(value) ==
    IF value = NA THEN "N/A"
    ELSE IF Len(value) >= 1 /\ value[1] = "T" THEN "list"
    ELSE "range"

Matched(value) == value # NA

\* C17 (as claimed): the diameter, tensile, crush and nescCondition
\* extractors find in the text what they find in it with its letters in
\* lower case and in upper case.
C17_CaseInsensitive ==
    \A j \in 1..Len(all_cables) :
        LET r == all_cables[j]
        IN  \A text \in {Lower(TextOf(r)), Upper(TextOf(r))} :
                /\ Matched(r.diameter) = Matched(extract_parameter_value(text, <<"c", "a", "b", "l", "e", " ", "d", "i", "a", "m", "e", "t", "e", "r">>))
                /\ Matched(r.tensile) = Matched(extract_parameter_value(text, <<"t", "e", "n", "s", "i", "l", "e", " ", "s", "t", "r", "e", "n", "g", "t", "h">>))
                /\ Matched(r.crush) = Matched(extract_parameter_value(text, <<"c", "r", "u", "s", "h", " ", "r", "e", "s", "i", "s", "t", "a", "n", "c", "e">>))
                /\ NescForm(r.nescCondition) = NescForm(get_nesc_condition(text))

\* a crush and a tensile value are found whatever the case of "N" and "cm"
C17_Witness ==
    /\ pc = "done"
    /\ Len(all_cables) >= 1
    /\ all_cables[1].crush = <<"2", "0", " ", "N", "/", "1", "0", " ", "c", "m">>
    /\ extract_parameter_value(Lower(TextOf(all_cables[1])), <<"c", "r", "u", "s", "h", " ", "r", "e", "s", "i", "s", "t", "a", "n", "c", "e">>) = <<"2", "0", " ", "n", "/", "1", "0", " ", "c", "m">>
    /\ extract_parameter_value(Upper(TextOf(all_cables[1])), <<"c", "r", "u", "s", "h", " ", "r", "e", "s", "i", "s", "t", "a", "n", "c", "e">>) = <<"2", "0", " ", "N", "/", "1", "0", " ", "C", "M">>
    /\ extract_parameter_value(Lower(TextOf(all_cables[1])), <<"t", "e", "n", "s", "i", "l", "e", " ", "s", "t", "r", "e", "n", "g", "t", "h">>) = <<"2", "0", " ", "n">>

(***************************************************************************)
(* Properties of the polling threads                                       *)
(***************************************************************************)

\* C19 (as claimed): a thread that has found a name missing from
\* processed_files and is about to process and add it holds the lock, and
\* no two threads are processing the same PDF.
C19_LockGuardsProcessedFiles ==
    /\ \A t \in Threads : polls[t].pc = "processing" => lock = t
    /\ \A t, u \in Threads :
        (t # u /\ polls[t].pc = "processing" /\ polls[u].pc = "processing") =>
            polls[t].pdf_name # polls[u].pdf_name

\* a poll of one thread has processed a new PDF and added its name
C19_Witness ==
    /\ processed_files = {<<"a", ".", "p", "d", "f">>}
    /\ Len(processing_log) = 1
    /\ ~processing_log[1].raised
    /\ \E t \in Threads : polls[t].pc = "idle" /\ polls[t].polls = 1 /\ polls[t].returned /\ ~polls[t].existing

(***************************************************************************)
(* Properties of the attribute rules                                       *)
(***************************************************************************)

\* the description of a record without its count
DescriptionOf(r) == SubSeq(r.cableDescription, Len(r.fiberCount) + 2, Len(r.cableDescription))

\* the rules of the description in their order: a phrase is looked for in
\* any letter case, a code in the case it is written in
DescriptionRules ==
    <<[token |-> IndoorLSZH, any_case |-> TRUE, value |-> IndoorLSZH],
      [token |-> Outdoor, any_case |-> TRUE, value |-> Outdoor],
      [token |-> Armoured, any_case |-> TRUE, value |-> Armoured],
      [token |-> MicroCable, any_case |-> TRUE, value |-> MicroCable],
      [token |-> Unarmoured, any_case |-> TRUE, value |-> Unarmoured],
      [token |-> <<"M", "T", "U", "A">>, any_case |-> FALSE, value |-> IndoorLSZH],
      [token |-> <<"U", "T", "A">>, any_case |-> FALSE, value |-> Armoured],
      [token |-> <<"M", "I", "C", "R", "O">>, any_case |-> FALSE, value |-> MicroCable],
      [token |-> <<"M", "T", " ", "U", "A">>, any_case |-> FALSE, value |-> Unarmoured]>>

RuleMatches(rule, text) ==
    IF rule.any_case THEN Contains(Lower(text), Lower(rule.token)) ELSE Contains(text, rule.token)

MatchingRules(text) == {k \in 1..Len(DescriptionRules) : RuleMatches(DescriptionRules[k], text)}

FirstRuleValue(text) ==
    IF MatchingRules(text) = {} THEN OpticalFiberCable
    ELSE DescriptionRules[CHOOSE k \in MatchingRules(text) : \A j \in MatchingRules(text) : k <= j].value

PhraseMatches(text) == \E k \in 1..5 : k \in MatchingRules(text)

\* C21: the description is the value of the first rule that matches, the
\* five phrases before the four codes, and "Optical Fiber Cable" when none
\* matches; a phrase wins over every code.
C21_FirstDescriptionRuleWins ==
    \A j \in 1..Len(all_cables) :
        /\ DescriptionOf(all_cables[j]) = FirstRuleValue(TextOf(all_cables[j]))
        /\ PhraseMatches(TextOf(all_cables[j])) =>
            \E k \in 1..5 : /\ k \in MatchingRules(TextOf(all_cables[j]))
                            /\ DescriptionOf(all_cables[j]) = DescriptionRules[k].value

\* the phrase in lower case decides although the code MTUA comes first in
\* the text
C21_Witness ==
    /\ pc = "done"
    /\ Len(all_cables) = 1
    /\ Contains(TextOf(all_cables[1]), <<"M", "T", "U", "A", "o", "u", "t", "d", "o", "o", "r", " ", "l", "o", "o", "s", "e", "-", "t", "u", "b", "e", " ", "c", "a", "b", "l", "e">>)
    /\ DescriptionOf(all_cables[1]) = Outdoor

HasUnitubeToken(text) == Contains(text, <<"U", "n", "i", "t", "u", "b", "e">>) \/ Contains(text, <<"U", "T", "A">>)

HasMultitubeToken(text) == Contains(text, <<"M", "u", "l", "t", "i", "t", "u", "b", "e">>) \/ Contains(text, <<"M", "T", "U", "A">>) \/ Contains(text, <<"M", "T", " ", "U", "A">>)

\* C22: typeofCable is UT when the text holds a Unitube token, else MT when
\* it holds a Multitube token, else N/A, the tokens taken in the case they
\* are written in: with both kinds UT, with lower-case forms only N/A.
C22_CableTypeFirstMatch ==
    \A j \in 1..Len(all_cables) :
        LET text == TextOf(all_cables[j])
            typeofCable == all_cables[j].typeofCable
        IN  /\ HasUnitubeToken(text) => typeofCable = <<"U", "T">>
            /\ (~HasUnitubeToken(text) /\ HasMultitubeToken(text)) => typeofCable = <<"M", "T">>
            /\ (~HasUnitubeToken(text) /\ ~HasMultitubeToken(text)) => typeofCable = NA

\* "Multitube" before "Unitube" in the text, and UT
C22_Witness ==
    /\ pc = "done"
    /\ Len(all_cables) = 1
    /\ Contains(TextOf(all_cables[1]), <<"M", "u", "l", "t", "i", "t", "u", "b", "e", "U", "n", "i", "t", "u", "b", "e">>)
    /\ all_cables[1].typeofCable = <<"U", "T">>

\* "unitube" and "uta" in lower case, and N/A
C22_WitnessLowerCase ==
    /\ pc = "done"
    /\ Len(all_cables) = 1
    /\ Contains(TextOf(all_cables[1]), <<"u", "n", "i", "t", "u", "b", "e">>)
    /\ Contains(TextOf(all_cables[1]), <<"u", "t", "a">>)
    /\ all_cables[1].typeofCable = NA

\* the position after the run of characters of cls that starts at p
Skip(text, p, cls) == p + RunLength(text, p, cls, TRUE)

HasAt(text, p, s) == p + Len(s) - 1 <= Len(text) /\ SubSeq(text, p, p + Len(s) - 1) = s

\* the position after the temperature ("-" or not, digits, whitespace or
\* not, (deg)C) that starts at p, 0 when none starts there
TempEnd(text, p) ==
    LET a == IF HasAt(text, p, <<"-">>) THEN p + 1 ELSE p
        b == Skip(text, a, Digits)
        c == Skip(text, b, Whitespace)
    IN  IF b > a /\ HasAt(text, c, <<"deg", "C">>) THEN c + 2 ELSE 0

\* the position after the range (a temperature, "to", "+" and a
\* temperature without sign) that starts at p, 0 when none starts there
RangeEnd(text, p) ==
    IF TempEnd(text, p) = 0 THEN 0
    ELSE LET b == Skip(text, TempEnd(text, p), Whitespace)
             c == Skip(text, b + 2, Whitespace)
             d == Skip(text, c + 1, Digits)
             e == Skip(text, d, Whitespace)
         IN  IF HasAt(text, b, <<"t", "o">>) /\ HasAt(text, c, <<"+">>) /\ d > c + 1 /\ HasAt(text, e, <<"deg", "C">>)
             THEN e + 2 ELSE 0

RangeStarts(text) == {p \in 1..Len(text) : RangeEnd(text, p) # 0}

RECURSIVE TempsFrom(_, _)
\* the temperatures of the text from p on, in text order
TempsFrom(text, p) ==
    IF p > Len(text) THEN <<>>
    ELSE IF TempEnd(text, p) # 0
    THEN <<SubSeq(text, p, TempEnd(text, p) - 1)>> \o TempsFrom(text, TempEnd(text, p))
    ELSE TempsFrom(text, p + 1)

\* C23: nescCondition is the first range of the text; without a range,
\* "Temperature range: " and the temperatures of the text in their order,
\* joined by ", "; without a temperature, N/A.
C23_NescRangeThenList ==
    \A j \in 1..Len(all_cables) :
        LET text == TextOf(all_cables[j])
            first == CHOOSE p \in RangeStarts(text) : \A q \in RangeStarts(text) : p <= q
        IN  all_cables[j].nescCondition =
                IF RangeStarts(text) # {} THEN SubSeq(text, first, RangeEnd(text, first) - 1)
                ELSE IF TempsFrom(text, 1) # <<>>
                THEN <<"T", "e", "m", "p", "e", "r", "a", "t", "u", "r", "e", " ", "r", "a", "n", "g", "e", ":", " ">> \o Join(<<",", " ">>, TempsFrom(text, 1))
                ELSE NA

\* a range written without "+" gives the list
C23_Witness ==
    /\ pc = "done"
    /\ Len(all_cables) = 1
    /\ Contains(TextOf(all_cables[1]), <<"-", "4", "0", "deg", "C", " ", "t", "o", " ", "7", "0", "deg", "C">>)
    /\ all_cables[1].nescCondition = <<"T", "e", "m", "p", "e", "r", "a", "t", "u", "r", "e", " ", "r", "a", "n", "g", "e", ":", " ", "-", "4", "0", "deg", "C", ",", " ", "7", "0", "deg", "C">>

\* a range gives the range
C23_WitnessRange ==
    /\ pc = "done"
    /\ Len(all_cables) = 1
    /\ Contains(TextOf(all_cables[1]), <<"-", "4", "0", "deg", "C", " ", "t", "o", "+", "7", "0", "deg", "C">>)
    /\ all_cables[1].nescCondition = <<"-", "4", "0", "deg", "C", " ", "t", "o", "+", "7", "0", "deg", "C">>

\* C26: a text that holds the phrase "Unarmoured loose-tube cable" holds
\* the phrase "Armoured loose-tube cable", so its description is Armoured
\* unless the Indoor or the Outdoor phrase is there; the description
\* Unarmoured comes from the code "MT UA" only.
C26_UnarmouredPhraseNeverDecides ==
    \A j \in 1..Len(all_cables) :
        LET text == TextOf(all_cables[j])
            description == DescriptionOf(all_cables[j])
        IN  /\ (5 \in MatchingRules(text)) =>
                /\ 3 \in MatchingRules(text)
                /\ (1 \notin MatchingRules(text) /\ 2 \notin MatchingRules(text)) => description = Armoured
                /\ description \in {IndoorLSZH, Outdoor, Armoured}
            /\ description = Unarmoured =>
                /\ ~PhraseMatches(text)
                /\ Contains(text, <<"M", "T", " ", "U", "A">>)

\* the Unarmoured phrase, and the description Armoured
C26_Witness ==
    /\ pc = "done"
    /\ Len(all_cables) = 1
    /\ Contains(TextOf(all_cables[1]), Unarmoured)
    /\ ~Contains(Lower(TextOf(all_cables[1])), Lower(Outdoor))
    /\ DescriptionOf(all_cables[1]) = Armoured

\* the code "MT UA", and the description Unarmoured
C26_WitnessCode ==
    /\ pc = "done"
    /\ Len(all_cables) = 1
    /\ Contains(TextOf(all_cables[1]), <<"M", "T", " ", "U", "A">>)
    /\ DescriptionOf(all_cables[1]) = Unarmoured

\* the position after the digits, whitespace or not, and "N" or "n" that
\* start at p, 0 when none start there
TensileEnd(text, p) ==
    LET b == Skip(text, p, Digits)
        c == Skip(text, b, Whitespace)
    IN  IF b > p /\ c <= Len(text) /\ text[c] \in {"N", "n"} THEN c + 1 ELSE 0

TensileStarts(text) == {p \in 1..Len(text) : TensileEnd(text, p) # 0}

\* C27: tensile is the leftmost digits, whitespace or not, and "N" or "n"
\* of the normalized text; what the Installation and Short Term patterns
\* match the bare pattern matches, so they never decide.
C27_TensileLeftmostBare ==
    \A j \in 1..Len(all_cables) :
        LET clean == CollapseWhitespace(TextOf(all_cables[j]))
            first == CHOOSE p \in TensileStarts(clean) : \A q \in TensileStarts(clean) : p <= q
        IN  /\ all_cables[j].tensile =
                    IF TensileStarts(clean) = {} THEN NA
                    ELSE SubSeq(clean, first, TensileEnd(clean, first) - 1)
            /\ \A k \in 2..Len(TensilePatterns) :
                    re_search(TensilePatterns[k], clean).ok => re_search(TensilePatterns[1], clean).ok

\* a crush value before "Installation: 15 N": tensile is "20 N"
C27_Witness ==
    /\ pc = "done"
    /\ Len(all_cables) = 1
    /\ Contains(TextOf(all_cables[1]), <<"2", "0", " ", "N", "/", "1", "0", " ", "c", "m", "I", "n", "s", "t", "a", "l", "l", "a", "t", "i", "o", "n", ":", " ", "1", "5", " ", "N">>)
    /\ all_cables[1].tensile = <<"2", "0", " ", "N">>

\* C28: typeofCable is UT exactly when tube is Unitube, MT exactly when
\* tube is Multitube, N/A exactly when tube is Micro or Standard.
C28_TypeAndTubeAgree ==
    \A j \in 1..Len(all_cables) :
        /\ (all_cables[j].typeofCable = <<"U", "T">>) = (all_cables[j].tube = <<"U", "n", "i", "t", "u", "b", "e">>)
        /\ (all_cables[j].typeofCable = <<"M", "T">>) = (all_cables[j].tube = <<"M", "u", "l", "t", "i", "t", "u", "b", "e">>)
        /\ (all_cables[j].typeofCable = NA) = (all_cables[j].tube \in {<<"M", "i", "c", "r", "o">>, <<"S", "t", "a", "n", "d", "a", "r", "d">>})

\* "Micro" with a Multitube token: MT and Multitube
C28_Witness ==
    /\ pc = "done"
    /\ Len(all_cables) = 1
    /\ Contains(TextOf(all_cables[1]), <<"M", "i", "c", "r", "o">>)
    /\ Contains(TextOf(all_cables[1]), <<"M", "T", " ", "U", "A">>)
    /\ all_cables[1].typeofCable = <<"M", "T">>
    /\ all_cables[1].tube = <<"M", "u", "l", "t", "i", "t", "u", "b", "e">>

\* "Micro" alone: N/A and Micro
C28_WitnessMicro ==
    /\ pc = "done"
    /\ Len(all_cables) = 1
    /\ all_cables[1].typeofCable = NA
    /\ all_cables[1].tube = <<"M", "i", "c", "r", "o">>

(***************************************************************************)
(* Properties of post_multiple_cables                                      *)
(***************************************************************************)

RECURSIVE WireUpTo(_, _)
\* what goes over the wire for the first k records: the posts in order,
\* with a wait of the delay between every two of them when delay > 0
WireUpTo(k, delay) ==
    IF k = 0 THEN <<>>
    ELSE WireUpTo(k - 1, delay)
         \o (IF k > 1 /\ delay > 0 THEN <<[kind |-> "sleep", n |-> delay]>> ELSE <<>>)
         \o <<[kind |-> "post", n |-> k]>>

PosterCalled == poster.pc # "idle"

PosterEnded == poster.pc \in {"returned", "raised"}

\* C24: post_multiple_cables posts the records one after another in input
\* order, waits the delay between every two consecutive posts when
\* delay > 0 and not after the last post, goes on after a failed post, and
\* returns one result per input record in the same order.
C24_PostsInOrderAndReturns ==
    PosterCalled =>
        /\ posted = SubSeq(poster.cable_data_list, 1, poster.i)
        /\ Len(poster.results) = poster.i
        /\ \A k \in 1..poster.i :
               poster.results[k].cable_description = poster.cable_data_list[k].cableDescription
        /\ poster.wire = WireUpTo(poster.i, poster.delay)
                         \o (IF poster.pc = "loop" /\ poster.delay > 0
                                /\ 0 < poster.i /\ poster.i < Len(poster.cable_data_list)
                             THEN <<[kind |-> "sleep", n |-> poster.delay]>> ELSE <<>>)
        /\ poster.pc = "sleep" => poster.delay > 0 /\ poster.i < Len(poster.cable_data_list)
        /\ PosterEnded => /\ poster.pc = "returned"
                          /\ poster.i = Len(poster.cable_data_list)

\* the part of C24 that the code keeps: a list of at least one record
C24_HoldsOnNonEmptyLists == poster.cable_data_list # <<>> => C24_PostsInOrderAndReturns

\* two records with a delay: the first post fails, one wait, the second
\* post succeeds, and two results come back
C24_Witness ==
    /\ poster.pc = "returned"
    /\ poster.delay > 0
    /\ Len(poster.cable_data_list) = 2
    /\ poster.cable_data_list[1] # poster.cable_data_list[2]
    /\ posted = poster.cable_data_list
    /\ ~poster.results[1].success
    /\ poster.results[2].success
    /\ poster.wire = <<[kind |-> "post", n |-> 1], [kind |-> "sleep", n |-> poster.delay], [kind |-> "post", n |-> 2]>>

\* the empty list: the summary divides by the number of records
C24_EmptyListRaises == poster.pc = "raised" /\ poster.cable_data_list = <<>>

(***************************************************************************)
(* Properties of the uploads                                               *)
(***************************************************************************)

SameOriginalFilename == requests["request1"].filename = requests["request2"].filename

\* the request has chosen the path it saves to and has not removed the file
HoldsSavedPath(r) == requests[r].pc \in {"save", "name", "copy", "process", "finish"}

\* the request has chosen the path it stages to and has not moved the file
HoldsStagedPath(r) == requests[r].pc \in {"copy", "process", "finish"}

\* what process_uploaded_pdf read for the request is what the request uploaded
ProcessedOwnFile(r) == requests[r].processed # None => requests[r].processed = requests[r].content

\* C25: two concurrent uploads of the same original filename never save to
\* the same path of the uploads folder and never stage to the same path of
\* the scraper data directory, and neither processes the other's file.
C25_UploadsNeverShareAPath ==
    SameOriginalFilename =>
        /\ (HoldsSavedPath("request1") /\ HoldsSavedPath("request2")) =>
               requests["request1"].unique_filename # requests["request2"].unique_filename
        /\ (HoldsStagedPath("request1") /\ HoldsStagedPath("request2")) =>
               requests["request1"].scraper_filename # requests["request2"].scraper_filename
        /\ \A r \in Requests : ProcessedOwnFile(r)

\* two uploads of a.pdf that were both answered 200, each having processed
\* its own file, both files in the processed folder
C25_Witness ==
    /\ SameOriginalFilename
    /\ \A r \in Requests : /\ requests[r].pc = "done"
                           /\ requests[r].status = 200
                           /\ requests[r].processed = requests[r].content
    /\ Cardinality(DOMAIN PROCESSED_FOLDER) = 2

\* both requests hold the same path of the uploads folder
C25_SameSavedPath ==
    /\ SameOriginalFilename
    /\ HoldsSavedPath("request1") /\ HoldsSavedPath("request2")
    /\ requests["request1"].unique_filename = requests["request2"].unique_filename

\* both requests hold the same path of the data directory although their
\* saved paths differ
C25_SameStagedPath ==
    /\ SameOriginalFilename
    /\ HoldsStagedPath("request1") /\ HoldsStagedPath("request2")
    /\ requests["request1"].unique_filename # requests["request2"].unique_filename
    /\ requests["request1"].scraper_filename = requests["request2"].scraper_filename

\* request1 is answered 200 for the file request2 uploaded
C25_ProcessedTheOthersFile ==
    /\ requests["request1"].pc = "done"
    /\ requests["request1"].status = 200
    /\ requests["request1"].processed = requests["request2"].content

(***************************************************************************)
(* Properties of process_uploaded_pdf's count and second posting           *)
(***************************************************************************)

\* process_uploaded_pdf has returned after _process_single_pdf ran without
\* an exception
UploadedPdfProcessed ==
    /\ call.name = "process_uploaded_pdf"
    /\ step = "returned"
    /\ result.pdf_processed

\* the records parsed from the PDF of the call
OwnRecords == pdf_cables(pdf_named(call.pdf_filename), hashseed)

\* what _process_single_pdf posted itself
FirstPosting == IF API_URL # "" THEN OwnRecords ELSE <<>>

\* the records the call loaded from disk and posted
SecondPosting == SubSeq(posted, Len(FirstPosting) + 1, Len(posted))

\* C29: the cables_extracted of a process_uploaded_pdf call is the number
\* of records parsed from the call's PDF, and the records it loads from
\* disk and posts are exactly that PDF's records; files left by an earlier
\* upload of the name or by a PDF whose stem starts with this stem and "_"
\* are neither counted nor posted.
C29_CountsAndPostsOwnRecords ==
    UploadedPdfProcessed =>
        /\ result.cables_extracted = Len(OwnRecords)
        /\ API_URL # "" => /\ Len(SecondPosting) = Len(OwnRecords)
                           /\ Elements(SecondPosting) = Elements(OwnRecords)

\* an output directory that held nothing before: two records parsed, two
\* counted, and the two loaded and posted
C29_Witness ==
    /\ UploadedPdfProcessed
    /\ API_URL # ""
    /\ Len(OwnRecords) = 2
    /\ DOMAIN output_dir = {output_filename(OwnRecords[1]), output_filename(OwnRecords[2])}
    /\ result.cables_extracted = 2
    /\ Elements(SecondPosting) = Elements(OwnRecords)

\* a_96F.json of an earlier a.pdf is counted and posted with the 24F
\* record of this a.pdf
C29_EarlierUploadCounted ==
    /\ UploadedPdfProcessed
    /\ API_URL # ""
    /\ Len(OwnRecords) = 1
    /\ OwnRecords[1].fiberCount = <<"2", "4", "F">>
    /\ result.cables_extracted = 2
    /\ \E k \in 1..Len(SecondPosting) : SecondPosting[k].fiberCount = <<"9", "6", "F">>

\* a_b_24F.json of a_b.pdf is counted and posted for a.pdf
C29_OtherPdfCounted ==
    /\ UploadedPdfProcessed
    /\ API_URL # ""
    /\ result.cables_extracted = Len(OwnRecords) + 1
    /\ \E k \in 1..Len(SecondPosting) : stem(SecondPosting[k].datasheetURL) = <<"a", "_", "b">>

(***************************************************************************)
(* Properties of the polls of one thread                                   *)
(***************************************************************************)

\* the processing of the PDF raises
Raises(name) == \E k \in 1..Len(data_dir) : data_dir[k].filename = name /\ data_dir[k].content.kind # "str"

\* _process_single_pdf returned for the name without an exception
ReturnedFor(name) == \E k \in 1..Len(processing_log) : processing_log[k].pdf_name = name /\ ~processing_log[k].raised

\* the names the poll in progress has finished with
DoneInPoll ==
    IF polls[Poller].pc = "processing"
    THEN (polls[Poller].new_files \ polls[Poller].todo) \ {polls[Poller].pdf_name}
    ELSE polls[Poller].new_files \ polls[Poller].todo

\* the names of the last n entries of the log
LastProcessed(n) == {processing_log[k].pdf_name : k \in (Len(processing_log) - n + 1)..Len(processing_log)}

\* what holds of processed_files and the log while the processor runs
PollsKeepProcessedFiles ==
    polls[Poller].pc # "raised" =>
        /\ \A name \in processed_files : ReturnedFor(name)
        /\ \A j, k \in 1..Len(processing_log) :
               (j < k /\ processing_log[j].pdf_name = processing_log[k].pdf_name) => processing_log[j].raised
        /\ \A name \in pdf_names : Raises(name) => name \notin processed_files
        /\ polls[Poller].pc \in {"loop", "processing"} =>
               /\ Len(processing_log) >= Cardinality(DoneInPoll)
               /\ LastProcessed(Cardinality(DoneInPoll)) = DoneInPoll

\* what a step of a poll does: the listing takes every PDF that raises and
\* no processed name, and the poll ends with every new name done and
\* returns whether there was one
PollStep ==
    /\ (polls[Poller].pc = "idle" /\ polls'[Poller].pc = "loop") =>
           /\ {name \in pdf_names : Raises(name)} \subseteq polls'[Poller].new_files
           /\ polls'[Poller].new_files \cap processed_files = {}
    /\ (polls[Poller].pc = "loop" /\ polls'[Poller].pc = "idle") =>
           /\ DoneInPoll = polls[Poller].new_files
           /\ polls'[Poller].returned = (polls[Poller].new_files # {})

\* C30: across the polls of one PDFProcessor a name is added to
\* processed_files only after _process_single_pdf returned for it without
\* an exception, a name in the set is never processed again, a PDF whose
\* processing raises stays out of the set and is processed again on every
\* later poll, and the poll returns true whenever it saw an unprocessed
\* PDF, even if all of them failed.
C30_PollsAddAfterSuccess == []PollsKeepProcessedFiles /\ [][PollStep]_vars

\* after two polls: b.pdf raised in both and is not in the set, a.pdf was
\* processed once and is in the set, and the last poll, which saw b.pdf
\* only, returned true
C30_Witness ==
    /\ polls[Poller].pc = "idle"
    /\ polls[Poller].polls = 2
    /\ polls[Poller].returned
    /\ polls[Poller].new_files = {<<"b", ".", "p", "d", "f">>}
    /\ processed_files = {<<"a", ".", "p", "d", "f">>}
    /\ Cardinality({k \in 1..Len(processing_log) : processing_log[k].pdf_name = <<"b", ".", "p", "d", "f">> /\ processing_log[k].raised}) = 2
    /\ Cardinality({k \in 1..Len(processing_log) : processing_log[k].pdf_name = <<"a", ".", "p", "d", "f">>}) = 1

====
